---------------------------- MODULE Spec2Model ----------------------------
(***************************************************************************)
(* A model of the ATP settlement service                                   *)
(* (src/rust_settlement_api/settlement_service.rs): the usage normalizer,  *)
(* the quote cache (TokenPriceFetcher), the payment calculator, the        *)
(* settlement executor and execute_settlement.                             *)
(*                                                                         *)
(* f64 values are modelled as exact rationals (n / d) * 10^(-e): the model *)
(* follows the order of the code's floating point                          *)
(* operations but not their rounding error, and it has no infinities or    *)
(* NaN.  u64 / i64 quantities are integers that stay far below 2^31 for    *)
(* the inputs drawn here, so saturation at the top of the range never      *)
(* triggers; saturation at 0 (a negative f64 cast to u64) is modelled.     *)
(***************************************************************************)
EXTENDS Integers, Sequences, FiniteSets, TLC

VARIABLES
    clock,      \* SystemTime::now() in whole seconds since UNIX_EPOCH
    cache,      \* TokenPriceFetcher.cache: upper-cased symbol -> entry
    fetchedAt,  \* history: clock value when the last cache write happened
    pc,         \* per task: the await point the task is suspended at
    req,        \* per task: the request (the handler's arguments)
    now,        \* per task: get_price_usd's local `now`
    quote,      \* per task: what get_price_usd returned
    pricing_info, \* per task: calculate_payment_from_usage's local `pricing`
    calc,       \* per task: the CalculatePaymentResponse
    tx,         \* per task: the transaction handed to the RPC client
    result,     \* per task: what the handler returned
    log,        \* per task: history, the external calls and their answers in order
    held,       \* per task: the cache guard the task holds across its await point
    arg,        \* pure-function specifications: the input
    ret         \* pure-function specifications: the output

vars == <<clock, cache, fetchedAt, pc, req, now, quote, pricing_info, calc, tx,
          result, log, held, arg, ret>>

-----------------------------------------------------------------------------
(* Option<T>: None is the empty sequence, Some(x) a one-element sequence.  *)
None == <<>>
Some(x) == <<x>>
IsSome(o) == Len(o) = 1
Unwrap(o) == o[1]
UnwrapOr(o, dflt) == IF IsSome(o) THEN o[1] ELSE dflt
\* Option::or_else
OrElse(o, alt) == IF IsSome(o) THEN o ELSE alt

-----------------------------------------------------------------------------
(* f64 as exact rationals.  <<n, d, e>> is the number (n / d) * 10^(-e),   *)
(* kept in one canonical form: n and d coprime, d > 0 and coprime to 10,   *)
(* n not a multiple of 10 (0 is <<0, 1, 0>>).  The decimal exponent keeps  *)
(* the integers n and d small for amounts such as 1e-9 of a token.         *)
Abs(x) == IF x < 0 THEN -x ELSE x
Max(x, y) == IF x >= y THEN x ELSE y

RECURSIVE GCD(_, _)
GCD(a, b) == IF b = 0 THEN a ELSE GCD(b, a % b)

RECURSIVE Pow10(_)
\* 10_u64.pow(e)
Pow10(e) == IF e = 0 THEN 1 ELSE 10 * Pow10(e - 1)

RECURSIVE Norm(_, _, _)
\* The canonical form of (n / d) * 10^(-e), d # 0.
Norm(n, d, e) ==
    IF n = 0 THEN <<0, 1, 0>>
    ELSE IF d < 0 THEN Norm(-n, -d, e)
    ELSE IF GCD(Abs(n), d) > 1
         THEN Norm(n \div GCD(Abs(n), d), d \div GCD(Abs(n), d), e)
    ELSE IF n % 10 = 0 THEN Norm(n \div 10, d, e - 1)
    ELSE IF d % 2 = 0 THEN Norm(n * 5, d \div 2, e + 1)
    ELSE IF d % 5 = 0 THEN Norm(n * 2, d \div 5, e + 1)
    ELSE <<n, d, e>>

\* The rational n/d.
Rat(n, d) == Norm(n, d, 0)

\* `x as f64` for an integer x.
FromInt(x) == Norm(x, 1, 0)

\* a * b, cancelling across before multiplying.
RMul(a, b) ==
    LET g1 == GCD(Abs(a[1]), b[2])
        g2 == GCD(Abs(b[1]), a[2])
    IN  Norm((a[1] \div g1) * (b[1] \div g2), (a[2] \div g2) * (b[2] \div g1),
             a[3] + b[3])

\* a / b, for b # 0.
RDiv(a, b) == RMul(a, Norm(b[2], b[1], -b[3]))

\* a + b
RAdd(a, b) ==
    LET e == Max(a[3], b[3])
        g == GCD(a[2], b[2])
        an == a[1] * Pow10(e - a[3])
        bn == b[1] * Pow10(e - b[3])
    IN  IF a[1] = 0 THEN b
        ELSE IF b[1] = 0 THEN a
        ELSE Norm(an * (b[2] \div g) + bn * (a[2] \div g), (a[2] \div g) * b[2], e)

\* a - b
RSub(a, b) == RAdd(a, <<-b[1], b[2], b[3]>>)

\* The integer part of (n / d) * 10^(-e) for n >= 0.  With e >= 10 the value
\* is below 1, since n < 2^31.
Floor(n, d, e) ==
    IF e <= 0 THEN (n * Pow10(-e)) \div d
    ELSE IF e >= 10 THEN 0
    ELSE (n \div Pow10(e)) \div d

\* `x as i64` for an f64 x: truncation toward zero.
F64ToI64(a) ==
    IF a[1] >= 0 THEN Floor(a[1], a[2], a[3]) ELSE -Floor(-a[1], a[2], a[3])

\* `x as u64` for an f64 x: truncation toward zero, negative values give 0.
F64ToU64(a) == IF a[1] < 0 THEN 0 ELSE Floor(a[1], a[2], a[3])

-----------------------------------------------------------------------------
(* i64 at its full width.  <<k, r>> is the integer k * 2^62 + r with        *)
(* |r| < 2^30: the representable values are those from <<-2, 0>> (i64::MIN) *)
(* to <<2, -1>> (i64::MAX).  The counts of ordinary documents have k = 0.   *)
I64(n) == <<0, n>>
I64InRange(a) ==
    \/ a[1] \in -1..1
    \/ a[1] = 2 /\ a[2] < 0
    \/ a[1] = -2 /\ a[2] >= 0
\* a + b on i64 overflows: a panic in a build with overflow checks, a wrap
\* modulo 2^64 without them.
AddOverflows(a, b) == ~I64InRange(<<a[1] + b[1], a[2] + b[2]>>)
\* i64::wrapping_add
WrappingAdd(a, b) ==
    LET k == a[1] + b[1]
        r == a[2] + b[2]
    IN  IF I64InRange(<<k, r>>) THEN <<k, r>>
        ELSE IF k > 0 THEN <<k - 4, r>>
        ELSE <<k + 4, r>>
\* a < 0
I64IsNegative(a) == a[1] < 0 \/ (a[1] = 0 /\ a[2] < 0)
\* `x as f64` for an i64 x; 2^62 is taken as 46117 * 10^14.
I64ToF64(a) ==
    IF a[1] = 0 THEN FromInt(a[2]) ELSE Norm(a[1] * 46117, 1, -14)

-----------------------------------------------------------------------------
(* serde_json::Value.  Strings that are parsed are sequences of            *)
(* one-character strings; an object is a record of its members.            *)
JNull == [t |-> "null"]
JInt(n) == [t |-> "int", v |-> I64(n)]
\* An integer number near the ends of the i64 range: k * 2^62 + r.
JBig(k, r) == [t |-> "int", v |-> <<k, r>>]
JFloat(n, d) == [t |-> "float", v |-> Rat(n, d)]
JStr(s) == [t |-> "str", v |-> s]
JObj(f) == [t |-> "obj", f |-> f]

\* Value::as_object
IsObj(v) == v.t = "obj"
\* Map::get
Get(o, k) == IF IsObj(o) /\ k \in DOMAIN o.f THEN Some(o.f[k]) ELSE None

Digits == [c \in {"0", "1", "2", "3", "4", "5", "6", "7", "8", "9"} |->
             CASE c = "0" -> 0 [] c = "1" -> 1 [] c = "2" -> 2 [] c = "3" -> 3
               [] c = "4" -> 4 [] c = "5" -> 5 [] c = "6" -> 6 [] c = "7" -> 7
               [] c = "8" -> 8 [] c = "9" -> 9]

\* str::trim (the only whitespace drawn here is the blank)
RECURSIVE TrimStart(_)
TrimStart(s) ==
    IF s # <<>> /\ Head(s) = " " THEN TrimStart(Tail(s)) ELSE s
RECURSIVE TrimEnd(_)
TrimEnd(s) ==
    IF s # <<>> /\ s[Len(s)] = " " THEN TrimEnd(SubSeq(s, 1, Len(s) - 1)) ELSE s
Trim(s) == TrimEnd(TrimStart(s))

\* The value of a digit string, most significant digit first.
RECURSIVE DigitsValue(_, _)
DigitsValue(s, acc) ==
    IF s = <<>> THEN acc ELSE DigitsValue(Tail(s), 10 * acc + Digits[Head(s)])

\* str::parse::<i64>: an optional sign, then one or more digits.
ParseI64(s) ==
    LET signed == s # <<>> /\ Head(s) \in {"+", "-"}
        body == IF signed THEN Tail(s) ELSE s
    IN  IF body = <<>> \/ \E i \in 1..Len(body) : body[i] \notin DOMAIN Digits
        THEN None
        ELSE IF signed /\ Head(s) = "-"
             THEN Some(I64(-DigitsValue(body, 0)))
             ELSE Some(I64(DigitsValue(body, 0)))

safe_int(value) ==
    CASE value.t = "int" -> Some(value.v)
      [] value.t = "float" -> Some(I64(F64ToI64(value.v)))
      [] value.t = "str" -> ParseI64(Trim(value.v))
      [] OTHER -> None

\* Option<&Value>::and_then(safe_int)
AndThenSafeInt(v) == IF IsSome(v) THEN safe_int(Unwrap(v)) ELSE None

\* obj.get(k).and_then(safe_int)
GetInt(o, k) == AndThenSafeInt(Get(o, k))

\* One input/output rule: it matches when both counts coerce; the total is
\* the explicit field or else the sum.  The fourth component tells whether
\* the sum, which is evaluated only without the explicit field, overflowed.
PairRule(input, output, total) ==
    IF IsSome(input) /\ IsSome(output)
    THEN Some(<<input, output,
                OrElse(total, Some(WrappingAdd(Unwrap(input), Unwrap(output)))),
                ~IsSome(total) /\ AddOverflows(Unwrap(input), Unwrap(output))>>)
    ELSE None

\* The Cohere rule: it matches when `tokens` coerces.
TokensRule(input, output, tokens) ==
    IF IsSome(tokens) THEN Some(<<input, output, tokens, FALSE>>) ELSE None

\* The last rule of a list that matched.
RECURSIVE LastMatch(_)
LastMatch(rules) ==
    IF rules = <<>> THEN None
    ELSE IF IsSome(LastMatch(Tail(rules))) THEN LastMatch(Tail(rules))
    ELSE Head(rules)

\* The first rule of a list that matched.
RECURSIVE FirstMatch(_)
FirstMatch(rules) ==
    IF rules = <<>> THEN None
    ELSE IF IsSome(Head(rules)) THEN Head(rules)
    ELSE FirstMatch(Tail(rules))

\* a.or_else(|| b) on Option<&Value>, then and_then(safe_int): the first key
\* that is present is the one coerced.
RECURSIVE FirstPresent(_, _)
FirstPresent(o, keys) ==
    IF keys = <<>> THEN None
    ELSE IF IsSome(Get(o, Head(keys))) THEN Get(o, Head(keys))
    ELSE FirstPresent(o, Tail(keys))

\* Lines 408-425: the statistics rule.
StatisticsRule(stats) ==
    <<AndThenSafeInt(FirstPresent(stats, <<"input_tokens", "prompt_tokens", "tokens_in">>)),
      AndThenSafeInt(FirstPresent(stats, <<"output_tokens", "completion_tokens",
                                           "tokens_out">>)),
      AndThenSafeInt(FirstPresent(stats, <<"total_tokens", "tokens">>)),
      FALSE>>

\* obj.get(k).and_then(|v| v.as_object())
GetObj(o, k) == IF IsSome(Get(o, k)) /\ IsObj(Unwrap(Get(o, k))) THEN Get(o, k) ELSE None

\* meta.get("usage") of an object `meta` member
MetaUsage(meta) == IF IsSome(meta) THEN Get(Unwrap(meta), "usage") ELSE None

RECURSIVE parse_usage_tokens(_)
\* Nested rules that go on to the next rule when a nested object gave
\* three absent fields.
NestedRulesFallingThrough(flat, usage, meta_usage, stats) ==
    IF IsSome(flat) THEN Unwrap(flat)
    ELSE IF IsSome(usage) /\ parse_usage_tokens(Unwrap(usage)) # <<None, None, None, FALSE>>
    THEN parse_usage_tokens(Unwrap(usage))
    ELSE IF IsSome(meta_usage)
            /\ parse_usage_tokens(Unwrap(meta_usage)) # <<None, None, None, FALSE>>
    THEN parse_usage_tokens(Unwrap(meta_usage))
    ELSE IF IsSome(stats) THEN StatisticsRule(Unwrap(stats))
    ELSE <<None, None, None, FALSE>>

\* Lines 396-427: the rules tried when no flat rule (lines 351-394) matched.
NestedRules(flat, usage, meta_usage, stats) ==
    IF IsSome(flat) THEN Unwrap(flat)
    ELSE IF IsSome(usage) THEN parse_usage_tokens(Unwrap(usage))
    ELSE IF IsSome(meta_usage) THEN parse_usage_tokens(Unwrap(meta_usage))
    ELSE IF IsSome(stats) THEN StatisticsRule(Unwrap(stats))
    ELSE <<None, None, None, FALSE>>

\* (input_tokens, output_tokens, total_tokens), and whether an addition
\* overflowed on the way.
parse_usage_tokens(usage_data) ==
    IF ~IsObj(usage_data) THEN <<None, None, None, FALSE>>
    ELSE NestedRules(
            FirstMatch(<<
                PairRule(GetInt(usage_data, "prompt_tokens"),
                         GetInt(usage_data, "completion_tokens"),
                         GetInt(usage_data, "total_tokens")),
                PairRule(GetInt(usage_data, "input_tokens"),
                         GetInt(usage_data, "output_tokens"),
                         GetInt(usage_data, "total_tokens")),
                PairRule(GetInt(usage_data, "promptTokenCount"),
                         GetInt(usage_data, "candidatesTokenCount"),
                         GetInt(usage_data, "totalTokenCount")),
                TokensRule(GetInt(usage_data, "input_tokens"),
                           GetInt(usage_data, "output_tokens"),
                           GetInt(usage_data, "tokens"))>>),
            GetObj(usage_data, "usage"),
            MetaUsage(GetObj(usage_data, "meta")),
            GetObj(usage_data, "statistics"))

-----------------------------------------------------------------------------
(* Payment calculation.                                                    *)

\* PaymentToken
PaymentTokens == {"SOL", "USDC"}

\* A u64 subtraction a - b overflows when b > a: a panic in a build with
\* overflow checks, a wrap modulo 2^64 without them.
SubOverflows(a, b) == b > a

\* calculate_payment_amounts with the payee units converted from the payee's
\* token amount instead of taken as the remainder.
calculate_payment_amounts_ConvertingEach(usd_cost, token_price_usd, payment_token, fee_percent, decimals) ==
    LET total_amount_token == RDiv(usd_cost, token_price_usd)
        fee_amount_token == RMul(total_amount_token, fee_percent)
        agent_amount_token == RSub(total_amount_token, fee_amount_token)
        multiplier == Pow10(decimals)
        total_amount_units == F64ToU64(RMul(total_amount_token, FromInt(multiplier)))
        fee_amount_units == F64ToU64(RMul(fee_amount_token, FromInt(multiplier)))
    IN  [total_amount_units |-> total_amount_units,
         total_amount_token |-> total_amount_token,
         fee_amount_units |-> fee_amount_units,
         fee_amount_token |-> fee_amount_token,
         agent_amount_units |-> F64ToU64(RMul(agent_amount_token, FromInt(multiplier))),
         agent_amount_token |-> agent_amount_token,
         sub_overflow |-> SubOverflows(total_amount_units, fee_amount_units)]

\* calculate_payment_amounts with the fee units taken from the truncated
\* total units instead of from fee_amount_token.
calculate_payment_amounts_FeeOfUnits(usd_cost, token_price_usd, payment_token, fee_percent, decimals) ==
    LET total_amount_token == RDiv(usd_cost, token_price_usd)
        fee_amount_token == RMul(total_amount_token, fee_percent)
        agent_amount_token == RSub(total_amount_token, fee_amount_token)
        multiplier == Pow10(decimals)
        total_amount_units == F64ToU64(RMul(total_amount_token, FromInt(multiplier)))
        fee_amount_units == F64ToU64(RMul(FromInt(total_amount_units), fee_percent))
    IN  [total_amount_units |-> total_amount_units,
         total_amount_token |-> total_amount_token,
         fee_amount_units |-> fee_amount_units,
         fee_amount_token |-> fee_amount_token,
         agent_amount_units |-> total_amount_units - fee_amount_units,
         agent_amount_token |-> agent_amount_token,
         sub_overflow |-> SubOverflows(total_amount_units, fee_amount_units)]

calculate_payment_amounts(usd_cost, token_price_usd, payment_token, fee_percent, decimals) ==
    LET total_amount_token == RDiv(usd_cost, token_price_usd)
        fee_amount_token == RMul(total_amount_token, fee_percent)
        agent_amount_token == RSub(total_amount_token, fee_amount_token)
        multiplier == Pow10(decimals)
        total_amount_units == F64ToU64(RMul(total_amount_token, FromInt(multiplier)))
        fee_amount_units == F64ToU64(RMul(fee_amount_token, FromInt(multiplier)))
    IN  [total_amount_units |-> total_amount_units,
         total_amount_token |-> total_amount_token,
         fee_amount_units |-> fee_amount_units,
         fee_amount_token |-> fee_amount_token,
         agent_amount_units |-> total_amount_units - fee_amount_units,
         agent_amount_token |-> agent_amount_token,
         sub_overflow |-> SubOverflows(total_amount_units, fee_amount_units)]

\* tokens as f64 / 1_000_000.0 * rate
CostOf(tokens, cost_per_million_usd) ==
    RMul(RDiv(I64ToF64(UnwrapOr(tokens, I64(0))), FromInt(1000000)), cost_per_million_usd)

\* Lines 471-481 of calculate_payment_from_usage: the PricingInfo.
PricingInfo(tokens, input_cost, output_cost, input_rate, output_rate) ==
    [usd_cost |-> RAdd(input_cost, output_cost),
     input_tokens |-> tokens[1],
     output_tokens |-> tokens[2],
     total_tokens |-> tokens[3],
     input_cost_per_million_usd |-> input_rate,
     output_cost_per_million_usd |-> output_rate,
     input_cost_usd |-> input_cost,
     output_cost_usd |-> output_cost]

\* A pricing that charges the total at the input rate when the input count
\* is absent.
PricingOfTokensCountingTotal(tokens, input_cost_per_million_usd, output_cost_per_million_usd) ==
    PricingInfo(tokens,
                CostOf(OrElse(tokens[1], tokens[3]), input_cost_per_million_usd),
                CostOf(tokens[2], output_cost_per_million_usd),
                input_cost_per_million_usd, output_cost_per_million_usd)

\* Lines 464-469, given the parsed usage.
PricingOfTokens(tokens, input_cost_per_million_usd, output_cost_per_million_usd) ==
    PricingInfo(tokens, CostOf(tokens[1], input_cost_per_million_usd),
                CostOf(tokens[2], output_cost_per_million_usd),
                input_cost_per_million_usd, output_cost_per_million_usd)

\* Lines 464-481 of calculate_payment_from_usage.
PricingOf(usage, input_cost_per_million_usd, output_cost_per_million_usd) ==
    PricingOfTokens(parse_usage_tokens(usage), input_cost_per_million_usd,
                    output_cost_per_million_usd)

\* The skip test with < in place of <=.
IsZeroCostStrict(pricing) == pricing.usd_cost[1] < 0

\* usd_cost <= 0.0
IsZeroCost(pricing) == pricing.usd_cost[1] <= 0

\* The response of calculate_payment_from_usage when the cost is not positive.
SkippedCalc(pricing) ==
    [status |-> "skipped", reason |-> Some("zero_cost"), pricing |-> pricing,
     payment_amounts |-> None, token_price_usd |-> None]

\* The price used when get_price_usd fails: .unwrap_or(150.0)
DefaultPrice == 150

\* The decimals of a payment token.
DecimalsOf(payment_token) == IF payment_token = "SOL" THEN 9 ELSE 6

\* A calculator that prices a failed lookup at one dollar.
PriceOrDefaultOne(q) == IF q.ok THEN q.price ELSE FromInt(1)

\* Lines 493-499: get_price_usd(...).await.unwrap_or(150.0) on the result q.
PriceOrDefault(q) == IF q.ok THEN q.price ELSE FromInt(DefaultPrice)

\* Lines 493-520 of calculate_payment_from_usage, given what get_price_usd
\* returned (q.ok: the price q.price; otherwise the error q.err).
CalculatedCalc(pricing, payment_token, q, fee_percent) ==
    LET token_price_usd == PriceOrDefault(q)
    IN  [status |-> "calculated", reason |-> None, pricing |-> pricing,
         payment_amounts |-> Some(calculate_payment_amounts(
             pricing.usd_cost, token_price_usd, payment_token, fee_percent,
             DecimalsOf(payment_token))),
         token_price_usd |-> Some(token_price_usd)]

-----------------------------------------------------------------------------
(* Credentials, addresses and the transaction.                             *)

\* A private_key string, by what the parser looks at: whether it is empty
\* after trim, whether it starts with '[', and the bytes that
\* serde_json::from_str::<Vec<u8>> (with '[') or bs58::decode (without)
\* produces, None when that decoder fails.
PrivateKey(blank, bracket, bytes) ==
    [blank |-> blank, bracket |-> bracket, bytes |-> bytes]

\* Keypair::new_from_array: the key pair of a 32-byte secret.  The public
\* key is a function of the secret alone.
KeypairOf(secret) == [secret |-> secret, pubkey |-> <<"pubkey-of", secret>>]

\* Result<T, E>
Ok(x) == [ok |-> TRUE, val |-> Some(x), err |-> ""]
Err(e) == [ok |-> FALSE, val |-> None, err |-> e]

\* parse_keypair_from_string taking the second half of a 64-byte key pair.
parse_keypair_from_string_SecondHalf(private_key_str) ==
    IF private_key_str.blank THEN Err("Empty private_key")
    ELSE IF ~IsSome(private_key_str.bytes)
         THEN Err(IF private_key_str.bracket THEN "json error" ELSE "base58 error")
    ELSE LET bytes == Unwrap(private_key_str.bytes)
         IN  IF Len(bytes) = 32 THEN Ok(KeypairOf(bytes))
             ELSE IF Len(bytes) = 64 THEN Ok(KeypairOf(SubSeq(bytes, 33, 64)))
             ELSE Err("Invalid keypair length, expected 32 or 64 bytes")

parse_keypair_from_string(private_key_str) ==
    IF private_key_str.blank THEN Err("Empty private_key")
    ELSE IF ~IsSome(private_key_str.bytes)
         THEN Err(IF private_key_str.bracket THEN "json error" ELSE "base58 error")
    ELSE LET bytes == Unwrap(private_key_str.bytes)
         IN  IF Len(bytes) = 32 THEN Ok(KeypairOf(bytes))
             ELSE IF Len(bytes) = 64 THEN Ok(KeypairOf(SubSeq(bytes, 1, 32)))
             ELSE Err("Invalid keypair length, expected 32 or 64 bytes")

\* The account addresses drawn here that Pubkey::from_str accepts.
DefaultTreasury == "7MaX4muAn8ZQREJxnupm8sgokwFHujgrGfH9Qn81BuEV"
ValidPubkeys == {DefaultTreasury, "RecipientWallet"}

\* A parser that accepts every string.
Pubkey_from_str_Any(s) == Ok(s)

\* Pubkey::from_str
Pubkey_from_str(s) == IF s \in ValidPubkeys THEN Ok(s) ELSE Err("Invalid Base58 string")

\* create_transfer_instruction
create_transfer_instruction(from, to, lamports) ==
    [program_id |-> "11111111111111111111111111111111",
     from |-> from, to |-> to, lamports |-> lamports]

\* The transaction with the fee transfer pushed whatever its amount.
BuildTransactionAlwaysFee(payer, treasury_pubkey, recipient_pubkey, treasury_lamports, recipient_lamports, recent_blockhash) ==
    [instructions |->
        <<create_transfer_instruction(payer.pubkey, treasury_pubkey, treasury_lamports),
          create_transfer_instruction(payer.pubkey, recipient_pubkey, recipient_lamports)>>,
     fee_payer |-> payer.pubkey, signed_by |-> payer.pubkey,
     recent_blockhash |-> recent_blockhash]

\* Lines 626-646 of send_and_confirm_split_sol_payment: the signed transaction.
BuildTransaction(payer, treasury_pubkey, recipient_pubkey, treasury_lamports, recipient_lamports, recent_blockhash) ==
    LET fee_part == IF treasury_lamports > 0
                    THEN <<create_transfer_instruction(payer.pubkey, treasury_pubkey,
                                                       treasury_lamports)>>
                    ELSE <<>>
        instructions == Append(fee_part,
                               create_transfer_instruction(payer.pubkey, recipient_pubkey,
                                                           recipient_lamports))
    IN  [instructions |-> instructions, fee_payer |-> payer.pubkey,
         signed_by |-> payer.pubkey, recent_blockhash |-> recent_blockhash]

-----------------------------------------------------------------------------
(* The quote cache.                                                        *)

\* TokenPriceFetcher::new: cache_ttl
CACHE_TTL == 60

\* The symbols get_price_usd is called with here, and str::to_uppercase.
Symbols == {"SOL", "sol", "USDC", "usdc", "BTC"}
ToUpper(token) ==
    IF token = "sol" THEN "SOL" ELSE IF token = "usdc" THEN "USDC" ELSE token

\* The pegged test comparing the symbol as given.
IsPeggedAsGiven(token) == token = "USDC"

\* Line 265: token.to_uppercase() == "USDC"
IsPegged(token) == ToUpper(token) = "USDC"
CacheKeys == {ToUpper(t) : t \in Symbols}

\* A mapping that sends every symbol to the identifier of SOL.
CoingeckoIdAny(token_upper) == Some("solana")

\* The price source's identifier of an upper-cased symbol (coingecko_ids).
CoingeckoId(token_upper) == IF token_upper = "SOL" THEN Some("solana") ELSE None

\* What get_price_usd returns.
PriceOk(price) == [ok |-> TRUE, price |-> price, err |-> ""]
PriceErr(e) == [ok |-> FALSE, price |-> FromInt(0), err |-> e]
NoQuote == [ok |-> FALSE, price |-> FromInt(0), err |-> "(not called)"]

\* now - timestamp on u64 overflows when the entry was stamped with a later
\* `now` than this caller's.
AgeOverflows(now_, timestamp) == SubOverflows(now_, timestamp)

\* Line 279: now - timestamp < self.cache_ttl, when the subtraction does not
\* overflow.  A wrapped difference is at least 2^64 - timestamp, so not fresh.
IsFresh(now_, timestamp) ==
    /\ ~AgeOverflows(now_, timestamp)
    /\ now_ - timestamp < CACHE_TTL

\* What the price source answers to one request: no answer (a transport
\* error or the 10 s timeout), a non-success status, a success status whose
\* body holds no usable price, or a price.
FetchFailures == {"transport_error", "bad_status", "bad_body"}
FetchedPrices == {FromInt(100), FromInt(200)}
FetchOk(price) == [kind |-> "ok", price |-> price]
FetchFail(kind) == [kind |-> kind, price |-> FromInt(0)]
FetchResponses == {FetchFail(k) : k \in FetchFailures} \cup {FetchOk(x) : x \in FetchedPrices}

\* A task that keeps the read guard of line 277 while it waits for the
\* price source.
GuardAtReadKept(point) == IF point = "fetching" THEN "read" ELSE "none"

\* The guard on the cache a task holds while suspended at an await point:
\* the read guards of lines 277 and 305 and the write guard of line 320
\* live in blocks that end before the next await, and the function waiting
\* for the ledger has no guard in scope.
GuardAt(point) == "none"

\* tokio::sync::RwLock: read() is granted when no task holds the write
\* guard, write() when no task holds any guard.
CanRead(h, p) == \A q \in DOMAIN h : q # p => h[q] # "write"
CanWrite(h, p) == \A q \in DOMAIN h : q # p => h[q] = "none"

\* The lock a response makes the task take: write() for a price (line 320),
\* read() for a non-success status (line 305), none otherwise.
CanTakeLockFor(h, p, r) ==
    CASE r.kind = "ok" -> CanWrite(h, p)
      [] r.kind = "bad_status" -> CanRead(h, p)
      [] OTHER -> TRUE

\* Lines 297-324 of get_price_usd: the value returned for a response, given
\* the cache entry (an Option of <<price, timestamp>>) read at line 305.
PriceForResponse(r, entry) ==
    CASE r.kind = "transport_error" -> PriceErr("error sending request")
      [] r.kind = "bad_status" ->
            IF IsSome(entry) THEN PriceOk(Unwrap(entry)[1])
            ELSE PriceErr("Failed to fetch price")
      [] r.kind = "bad_body" -> PriceErr("Price not found")
      [] OTHER -> PriceOk(r.price)

\* A cache that drops the entry when the fetch gave no price.
CacheAfterResponseDropping(c, key, r, now_) ==
    IF r.kind = "ok" THEN [c EXCEPT ![key] = Some(<<r.price, now_>>)]
    ELSE [c EXCEPT ![key] = None]

\* The cache written before the response is looked at.
CacheAfterResponseAlways(c, key, r, now_) == [c EXCEPT ![key] = Some(<<r.price, now_>>)]

\* Lines 318-322 of get_price_usd: the cache after a response.
CacheAfterResponse(c, key, r, now_) ==
    IF r.kind = "ok" THEN [c EXCEPT ![key] = Some(<<r.price, now_>>)] ELSE c

-----------------------------------------------------------------------------
(* execute_settlement.                                                     *)

\* Config::from_env with no environment set.
FeePercent == Rat(5, 100)

\* The asset test letting every payment token through.
SupportedAssetAny(payment_token) == payment_token \in PaymentTokens

\* Line 692: payment_token != PaymentToken::SOL is refused.
SupportedAsset(payment_token) == payment_token = "SOL"

\* The amount test applied to the fee instead of the payee amount.
IsZeroAmountOfFee(treasury_lamports, recipient_lamports) == treasury_lamports = 0

\* Lines 575-577: the payee amount must be positive; the fee may be zero.
IsZeroAmount(treasury_lamports, recipient_lamports) == recipient_lamports = 0

\* The checks with the two addresses parsed before the credential.
PrepareAddressesFirst(r, amounts) ==
    LET payer == parse_keypair_from_string(r.private_key)
        treasury_pubkey == Pubkey_from_str(UnwrapOr(r.treasury_pubkey, DefaultTreasury))
        recipient_pubkey == Pubkey_from_str(r.recipient_pubkey)
    IN  IF ~SupportedAsset(r.payment_token)
        THEN [events |-> <<>>, error |-> "UnsupportedAsset",
              detail |-> "Automatic settlement currently supports SOL only"]
        ELSE IF ~treasury_pubkey.ok
        THEN [events |-> <<"parse_treasury">>,
              error |-> "InvalidAddress", detail |-> treasury_pubkey.err]
        ELSE IF ~recipient_pubkey.ok
        THEN [events |-> <<"parse_treasury", "parse_recipient">>,
              error |-> "InvalidAddress", detail |-> recipient_pubkey.err]
        ELSE IF ~payer.ok
        THEN [events |-> <<"parse_treasury", "parse_recipient", "parse_key">>,
              error |-> "InvalidCredential", detail |-> payer.err]
        ELSE IF IsZeroAmount(amounts.fee_amount_units, amounts.agent_amount_units)
        THEN [events |-> <<"parse_treasury", "parse_recipient", "parse_key">>,
              error |-> "ZeroAmount", detail |-> "recipient_lamports must be > 0"]
        ELSE [events |-> <<"parse_treasury", "parse_recipient", "parse_key",
                           "rpc_blockhash">>,
              error |-> "", detail |-> ""]

\* Lines 692-705 of execute_settlement and 575-599 of
\* send_and_confirm_split_sol_payment: the checks between the calculation
\* and the first RPC call, in the code's order.  events: the parsers run and,
\* when every check passes, the block-hash request; error: the first failure.
Prepare(r, amounts) ==
    LET payer == parse_keypair_from_string(r.private_key)
        treasury_pubkey_str == UnwrapOr(r.treasury_pubkey, DefaultTreasury)
        treasury_pubkey == Pubkey_from_str(treasury_pubkey_str)
        recipient_pubkey == Pubkey_from_str(r.recipient_pubkey)
    IN  IF ~SupportedAsset(r.payment_token)
        THEN [events |-> <<>>, error |-> "UnsupportedAsset",
              detail |-> "Automatic settlement currently supports SOL only"]
        ELSE IF ~payer.ok
        THEN [events |-> <<"parse_key">>, error |-> "InvalidCredential",
              detail |-> payer.err]
        ELSE IF IsZeroAmount(amounts.fee_amount_units, amounts.agent_amount_units)
        THEN [events |-> <<"parse_key">>, error |-> "ZeroAmount",
              detail |-> "recipient_lamports must be > 0"]
        ELSE IF ~treasury_pubkey.ok
        THEN [events |-> <<"parse_key", "parse_treasury">>,
              error |-> "InvalidAddress", detail |-> treasury_pubkey.err]
        ELSE IF ~recipient_pubkey.ok
        THEN [events |-> <<"parse_key", "parse_treasury", "parse_recipient">>,
              error |-> "InvalidAddress", detail |-> recipient_pubkey.err]
        ELSE [events |-> <<"parse_key", "parse_treasury", "parse_recipient",
                           "rpc_blockhash">>,
              error |-> "", detail |-> ""]

\* What execute_settlement returns (an Err is status "failed").
NoResult ==
    [status |-> "none", error |-> "", detail |-> "", transaction_signature |-> None,
     pricing |-> None, payment |-> None]
Skipped(pricing) ==
    [status |-> "skipped", error |-> "", detail |-> "", transaction_signature |-> None,
     pricing |-> Some(pricing), payment |-> None]
Failed(error, detail) ==
    [status |-> "failed", error |-> error, detail |-> detail,
     transaction_signature |-> None, pricing |-> None, payment |-> None]
\* Lines 720-741.
Paid(tx_sig, r, c) ==
    LET payment_amounts == Unwrap(c.payment_amounts)
        usd_cost == c.pricing.usd_cost
    IN  [status |-> "paid", error |-> "", detail |-> "",
         transaction_signature |-> Some(tx_sig),
         pricing |-> Some(c.pricing),
         payment |-> Some(
            [total_amount_lamports |-> payment_amounts.total_amount_units,
             total_amount_sol |-> payment_amounts.total_amount_token,
             total_amount_usd |-> usd_cost,
             treasury |->
                [pubkey |-> UnwrapOr(r.treasury_pubkey, DefaultTreasury),
                 amount_lamports |-> payment_amounts.fee_amount_units,
                 amount_sol |-> payment_amounts.fee_amount_token,
                 amount_usd |-> RMul(usd_cost, FeePercent)],
             recipient |->
                [pubkey |-> r.recipient_pubkey,
                 amount_lamports |-> payment_amounts.agent_amount_units,
                 amount_sol |-> payment_amounts.agent_amount_token,
                 amount_usd |-> RMul(usd_cost, RSub(FromInt(1), FeePercent))]])]
\* What a direct get_price_usd call leaves: the quote alone.
Returned == [NoResult EXCEPT !.status = "returned"]

\* The transaction the blocking task builds once it has a block hash.
TransactionOf(r, c, recent_blockhash) ==
    LET amounts == Unwrap(c.payment_amounts)
    IN  BuildTransaction(
            Unwrap(parse_keypair_from_string(r.private_key).val),
            Unwrap(Pubkey_from_str(UnwrapOr(r.treasury_pubkey, DefaultTreasury)).val),
            Unwrap(Pubkey_from_str(r.recipient_pubkey).val),
            amounts.fee_amount_units, amounts.agent_amount_units, recent_blockhash)

\* The error text of a failed get_latest_blockhash.
BlockhashError == "rpc unavailable"
\* What the ledger answers to send_and_confirm_transaction.
SendOutcomes == {"confirmed", "rejected", "unconfirmed"}
\* The signature of a confirmed transaction, as a string.
SignatureOf(transaction) == <<"signature-of", transaction.signed_by>>
\* A send that does not wait for the confirmation.
SendResultUnconfirmed(outcome, transaction) ==
    IF outcome \in {"confirmed", "unconfirmed"} THEN Ok(SignatureOf(transaction))
    ELSE Err("Failed to send transaction: " \o outcome)

\* Lines 648-657: send_and_confirm_transaction gives the signature only for
\* a transaction the ledger confirmed.
SendResult(outcome, transaction) ==
    IF outcome = "confirmed" THEN Ok(SignatureOf(transaction))
    ELSE Err("Failed to send transaction: " \o outcome)

-----------------------------------------------------------------------------
(* The tasks: a settle_endpoint request runs execute_settlement; a price   *)
(* client calls get_price_usd directly with a symbol.                      *)
Settlers == {"s1"}
Clients == {"q1", "q2"}
Tasks == Settlers \cup Clients

NoReq == [kind |-> "none"]

\* The seed of the signer's key, a full 64-byte key pair on it, and the
\* private_key strings drawn.
Seed == [i \in 1..32 |-> 7]
KeyJson64 == PrivateKey(FALSE, TRUE, Some(Seed \o [i \in 1..32 |-> 9]))
KeyBlank == PrivateKey(TRUE, FALSE, None)
PrivateKeys == {KeyJson64, KeyBlank}

\* The usage documents and the (input, output) rates per million drawn.
Usages ==
    {JNull,
     JObj([prompt_tokens |-> JInt(100), completion_tokens |-> JInt(50)]),
     JObj([input_tokens |-> JInt(1), output_tokens |-> JInt(0)]),
     JObj([tokens |-> JInt(9)]),
     JObj([statistics |-> JObj([total_tokens |-> JInt(8)])])}
RatePairs ==
    {<<Rat(5, 2), FromInt(10)>>, <<Rat(1, 10), Rat(1, 10)>>, <<FromInt(-1), FromInt(0)>>}

SettleRequests ==
    {[kind |-> "settle", private_key |-> k, usage |-> u,
      input_cost_per_million_usd |-> rp[1], output_cost_per_million_usd |-> rp[2],
      recipient_pubkey |-> rcp, payment_token |-> t, treasury_pubkey |-> tr] :
        k \in PrivateKeys, u \in Usages, rp \in RatePairs,
        rcp \in {"RecipientWallet", "not an address"}, t \in PaymentTokens,
        tr \in {None, Some("not an address")}}
PriceRequests == {[kind |-> "price", token |-> t] : t \in Symbols}

\* The symbol a task's get_price_usd call is about.
TokenOf(r) == IF r.kind = "settle" THEN r.payment_token ELSE r.token
PricingOfReq(r) ==
    PricingOf(r.usage, r.input_cost_per_million_usd, r.output_cost_per_million_usd)

\* The bounds of the clock.
TickStep == 10
MaxTime == 60

\* TokenPriceFetcher::new, and no request in any task.
Idle ==
    /\ clock = 0
    /\ cache = [k \in CacheKeys |-> None]
    /\ fetchedAt = [k \in CacheKeys |-> -1]
    /\ pc = [p \in Tasks |-> "idle"]
    /\ req = [p \in Tasks |-> NoReq]
    /\ now = [p \in Tasks |-> 0]
    /\ quote = [p \in Tasks |-> NoQuote]
    /\ pricing_info = [p \in Tasks |-> None]
    /\ calc = [p \in Tasks |-> None]
    /\ tx = [p \in Tasks |-> None]
    /\ result = [p \in Tasks |-> NoResult]
    /\ log = [p \in Tasks |-> <<>>]
    /\ held = [p \in Tasks |-> "none"]

Init ==
    /\ Idle
    /\ arg = None
    /\ ret = None

\* Lines 692-718 of execute_settlement, after the checks v: the task waits
\* for the block hash or has failed.
AfterChecks(p, v, events) ==
    /\ log' = [log EXCEPT ![p] = @ \o events \o v.events]
    /\ IF v.error = ""
       THEN /\ pc' = [pc EXCEPT ![p] = "blockhash"]
            /\ result' = result
       ELSE /\ pc' = [pc EXCEPT ![p] = "done"]
            /\ result' = [result EXCEPT ![p] = Failed(v.error, v.detail)]

\* calculate_payment_from_usage has returned the calculated response c.
AfterCalc(p, r, c, events) ==
    /\ calc' = [calc EXCEPT ![p] = Some(c)]
    /\ AfterChecks(p, Prepare(r, Unwrap(c.payment_amounts)), events)

\* get_price_usd has returned q to task p (request r, pricing pr): the caller
\* runs on to its next await point or to its end.  events: what the task did
\* since its last step.
Resume(p, r, pr, q, events) ==
    /\ quote' = [quote EXCEPT ![p] = q]
    /\ IF r.kind = "price"
       THEN /\ pc' = [pc EXCEPT ![p] = "done"]
            /\ result' = [result EXCEPT ![p] = Returned]
            /\ log' = [log EXCEPT ![p] = @ \o events]
            /\ calc' = calc
       ELSE AfterCalc(p, r, CalculatedCalc(Unwrap(pr), r.payment_token, q, FeePercent),
                      events)

\* Lines 263-277 of get_price_usd, entered by task p: the pegged symbol
\* returns at once, any other symbol captures `now` and waits for the
\* cache's read lock.
EnterGetPrice(p, r, pr) ==
    IF IsPegged(TokenOf(r))
    THEN /\ Resume(p, r, pr, PriceOk(FromInt(1)), <<"price_lookup">>)
         /\ now' = now
    ELSE /\ now' = [now EXCEPT ![p] = clock]
         /\ pc' = [pc EXCEPT ![p] = "cache_read"]
         /\ log' = [log EXCEPT ![p] = @ \o <<"price_lookup">>]
         /\ UNCHANGED <<quote, calc, result>>

\* Lines 483-499 of calculate_payment_from_usage, with the pricing pr.
Calculate(p, r, pr) ==
    /\ pricing_info' = [pricing_info EXCEPT ![p] = Some(pr)]
    /\ IF IsZeroCost(pr)
       THEN /\ calc' = [calc EXCEPT ![p] = Some(SkippedCalc(pr))]
            /\ result' = [result EXCEPT ![p] = Skipped(pr)]
            /\ pc' = [pc EXCEPT ![p] = "done"]
            /\ UNCHANGED <<now, quote, log>>
       ELSE EnterGetPrice(p, r, Some(pr))

\* Line 464 of calculate_payment_from_usage: with the parsed usage the
\* handler goes on, unless an addition in the parser overflowed in a build
\* that checks for it.
AfterParse(p, r, tokens, overflow_checks) ==
    IF tokens[4] /\ overflow_checks
    THEN /\ pc' = [pc EXCEPT ![p] = "panicked"]
         /\ UNCHANGED <<now, quote, pricing_info, calc, result, log>>
    ELSE Calculate(p, r, PricingOfTokens(tokens, r.input_cost_per_million_usd,
                                         r.output_cost_per_million_usd))

\* settle_endpoint: a request arrives and runs to its first await point.
SettleStart(p, r) ==
    /\ pc[p] = "idle"
    /\ req' = [req EXCEPT ![p] = r]
    /\ \E overflow_checks \in BOOLEAN :
          AfterParse(p, r, parse_usage_tokens(r.usage), overflow_checks)
    /\ UNCHANGED <<clock, cache, fetchedAt, tx, arg, ret>>
    /\ held' = [held EXCEPT ![p] = GuardAt(pc'[p])]

\* A direct call of get_price_usd.
PriceStart(p, r) ==
    /\ pc[p] = "idle"
    /\ req' = [req EXCEPT ![p] = r]
    /\ EnterGetPrice(p, r, None)
    /\ UNCHANGED <<clock, cache, fetchedAt, pricing_info, tx, arg, ret>>
    /\ held' = [held EXCEPT ![p] = GuardAt(pc'[p])]

\* Line 278-283 of get_price_usd: what the freshness test of the entry read
\* gives.  overflow_checks: whether the build panics on integer overflow.
Lookup(entry, now_, overflow_checks) ==
    IF ~IsSome(entry) THEN "miss"
    ELSE IF AgeOverflows(now_, Unwrap(entry)[2]) /\ overflow_checks THEN "panic"
    ELSE IF IsFresh(now_, Unwrap(entry)[2]) THEN "hit"
    ELSE "miss"

\* Lines 277-301 of get_price_usd: with the read lock, the freshness test;
\* on a miss the symbol's mapping and the request to the price source.
CacheRead(p) ==
    /\ pc[p] = "cache_read"
    /\ CanRead(held, p)
    /\ \E overflow_checks \in BOOLEAN :
         LET found == Lookup(cache[ToUpper(TokenOf(req[p]))], now[p], overflow_checks)
         IN  IF found = "panic"
             THEN /\ pc' = [pc EXCEPT ![p] = "panicked"]
                  /\ UNCHANGED <<quote, calc, result, log>>
             ELSE IF found = "hit"
             THEN Resume(p, req[p], pricing_info[p],
                         PriceOk(Unwrap(cache[ToUpper(TokenOf(req[p]))])[1]), <<>>)
             ELSE IF ~IsSome(CoingeckoId(ToUpper(TokenOf(req[p]))))
             THEN Resume(p, req[p], pricing_info[p], PriceErr("Unknown token"), <<>>)
             ELSE /\ pc' = [pc EXCEPT ![p] = "fetching"]
                  /\ log' = [log EXCEPT ![p] = Append(@, "fetch")]
                  /\ UNCHANGED <<quote, calc, result>>
    /\ UNCHANGED <<clock, cache, fetchedAt, req, now, pricing_info, tx, arg, ret>>
    /\ held' = [held EXCEPT ![p] = GuardAt(pc'[p])]

\* Lines 297-324 of get_price_usd: the price source's answer r arrives.
FetchResponse(p, r) ==
    /\ pc[p] = "fetching"
    /\ CanTakeLockFor(held, p, r)
    /\ cache' = CacheAfterResponse(cache, ToUpper(TokenOf(req[p])), r, now[p])
    /\ fetchedAt' = IF r.kind = "ok"
                    THEN [fetchedAt EXCEPT ![ToUpper(TokenOf(req[p]))] = clock]
                    ELSE fetchedAt
    /\ Resume(p, req[p], pricing_info[p],
              PriceForResponse(r, cache[ToUpper(TokenOf(req[p]))]),
              <<"fetch:" \o r.kind>>)
    /\ UNCHANGED <<clock, req, now, pricing_info, tx, arg, ret>>
    /\ held' = [held EXCEPT ![p] = GuardAt(pc'[p])]

\* Lines 597-646: get_latest_blockhash answers; with a block hash the
\* transaction is built, signed and sent.
BlockhashResponse(p, ok) ==
    /\ pc[p] = "blockhash"
    /\ IF ok
       THEN /\ tx' = [tx EXCEPT ![p] =
                        Some(TransactionOf(req[p], Unwrap(calc[p]), "blockhash"))]
            /\ pc' = [pc EXCEPT ![p] = "confirming"]
            /\ log' = [log EXCEPT ![p] = @ \o <<"blockhash:ok", "rpc_send">>]
            /\ result' = result
       ELSE /\ pc' = [pc EXCEPT ![p] = "done"]
            /\ log' = [log EXCEPT ![p] = Append(@, "blockhash:error")]
            /\ result' = [result EXCEPT ![p] = Failed("RelayError", "Failed to get blockhash: " \o BlockhashError)]
            /\ tx' = tx
    /\ UNCHANGED <<clock, cache, fetchedAt, req, now, quote, pricing_info, calc, arg, ret>>
    /\ held' = [held EXCEPT ![p] = GuardAt(pc'[p])]

\* SendResponse asking for a new block hash after a failed send.
SendResponseRetrying(p, outcome) ==
    /\ pc[p] = "confirming"
    /\ pc' = [pc EXCEPT ![p] = IF outcome = "confirmed" THEN "done" ELSE "blockhash"]
    /\ log' = [log EXCEPT ![p] =
                 IF outcome = "confirmed" THEN Append(@, "send:" \o outcome)
                 ELSE @ \o <<"send:" \o outcome, "rpc_blockhash">>]
    /\ result' = [result EXCEPT ![p] =
                    IF outcome = "confirmed"
                    THEN Paid(SignatureOf(Unwrap(tx[p])), req[p], Unwrap(calc[p]))
                    ELSE @]
    /\ UNCHANGED <<clock, cache, fetchedAt, req, now, quote, pricing_info, calc, tx, arg, ret>>
    /\ held' = [held EXCEPT ![p] = GuardAt(pc'[p])]

\* Lines 648-657 and 720-741: send_and_confirm_transaction answers.
SendResponse(p, outcome) ==
    /\ pc[p] = "confirming"
    /\ pc' = [pc EXCEPT ![p] = "done"]
    /\ log' = [log EXCEPT ![p] = Append(@, "send:" \o outcome)]
    /\ result' = [result EXCEPT ![p] =
                    IF SendResult(outcome, Unwrap(tx[p])).ok
                    THEN Paid(Unwrap(SendResult(outcome, Unwrap(tx[p])).val), req[p],
                              Unwrap(calc[p]))
                    ELSE Failed("RelayError", SendResult(outcome, Unwrap(tx[p])).err)]
    /\ UNCHANGED <<clock, cache, fetchedAt, req, now, quote, pricing_info, calc, tx, arg, ret>>
    /\ held' = [held EXCEPT ![p] = GuardAt(pc'[p])]

\* The response is out and the task's locals are dropped; a panicked task
\* is gone as well.  The slot takes the next request.
Finish(p) ==
    /\ pc[p] \in {"done", "panicked"}
    /\ pc' = [pc EXCEPT ![p] = "idle"]
    /\ req' = [req EXCEPT ![p] = NoReq]
    /\ now' = [now EXCEPT ![p] = 0]
    /\ quote' = [quote EXCEPT ![p] = NoQuote]
    /\ pricing_info' = [pricing_info EXCEPT ![p] = None]
    /\ calc' = [calc EXCEPT ![p] = None]
    /\ tx' = [tx EXCEPT ![p] = None]
    /\ result' = [result EXCEPT ![p] = NoResult]
    /\ log' = [log EXCEPT ![p] = <<>>]
    /\ UNCHANGED <<clock, cache, fetchedAt, arg, ret>>
    /\ held' = [held EXCEPT ![p] = GuardAt(pc'[p])]

\* Time passes.
Tick ==
    /\ clock + TickStep <= MaxTime
    /\ clock' = clock + TickStep
    /\ UNCHANGED <<held, cache, fetchedAt, pc, req, now, quote, pricing_info, calc, tx, result, log,
                   arg, ret>>

\* One settlement request at a time, with the quote cache and the clock.
Next ==
    \/ \E p \in Settlers, r \in SettleRequests : SettleStart(p, r)
    \/ \E p \in Settlers : CacheRead(p)
    \/ \E p \in Settlers, r \in FetchResponses : FetchResponse(p, r)
    \/ \E p \in Settlers, ok \in BOOLEAN : BlockhashResponse(p, ok)
    \/ \E p \in Settlers, outcome \in SendOutcomes : SendResponse(p, outcome)
    \/ \E p \in Settlers : Finish(p)
    \/ Tick

Spec == Init /\ [][Next]_vars

\* Concurrent get_price_usd calls on the one TokenPriceFetcher.
CacheNext ==
    \/ \E p \in Clients, r \in PriceRequests : PriceStart(p, r)
    \/ \E p \in Clients : CacheRead(p)
    \/ \E p \in Clients, r \in FetchResponses : FetchResponse(p, r)
    \/ \E p \in Clients : Finish(p)
    \/ Tick

CacheSpec == Init /\ [][CacheNext]_vars

-----------------------------------------------------------------------------
(* calculate_payment_amounts as a function of its arguments.               *)

\* The arguments drawn: costs from below zero up to a cent, fee fractions
\* inside [0, 1) and one outside it.
UsdCosts ==
    {Rat(-1, 10000), FromInt(0), Rat(1, 10000000), Rat(1, 1000000), Rat(25, 10000000),
     Rat(15, 1000000), Rat(3, 4000), Rat(1, 100)}
TokenPrices == {FromInt(1), FromInt(100), FromInt(DefaultPrice), FromInt(200)}
FeeFractions == {FromInt(0), Rat(5, 100), Rat(16, 100), Rat(1, 2), Rat(99, 100), Rat(3, 2)}
AmountsArgs ==
    {[usd_cost |-> u, token_price_usd |-> x, payment_token |-> t, fee_percent |-> f,
      decimals |-> DecimalsOf(t)] :
        u \in UsdCosts, x \in TokenPrices, t \in PaymentTokens, f \in FeeFractions}

AmountsInit ==
    /\ Idle
    /\ arg \in {Some(a) : a \in AmountsArgs}
    /\ ret = None

AmountsApply ==
    /\ ret = None
    /\ ret' = Some(calculate_payment_amounts(
                    Unwrap(arg).usd_cost, Unwrap(arg).token_price_usd,
                    Unwrap(arg).payment_token, Unwrap(arg).fee_percent,
                    Unwrap(arg).decimals))
    /\ UNCHANGED <<held, clock, cache, fetchedAt, pc, req, now, quote, pricing_info, calc, tx,
                   result, log, arg>>

AmountsNext == AmountsApply

AmountsSpec == AmountsInit /\ [][AmountsNext]_vars

-----------------------------------------------------------------------------
(* Properties.                                                             *)

Last(s) == s[Len(s)]
Events(p) == {log[p][i] : i \in 1..Len(log[p])}
LedgerCalls == {"rpc_blockhash", "rpc_send"}
NetworkCalls == LedgerCalls \cup {"fetch"}
Priced(p) == IsSome(pricing_info[p])
UsdCost(p) == Unwrap(pricing_info[p]).usd_cost

\* a < 1, for a rational a >= 0.
RLt1(a) ==
    IF a[3] >= 10 THEN TRUE
    ELSE IF a[3] >= 0 THEN a[1] \div Pow10(a[3]) < a[2]
    ELSE a[1] * Pow10(-a[3]) < a[2]
IsFraction(a) == a[1] >= 0 /\ RLt1(a)

\* C1: a settlement request whose computed usd_cost is zero or negative has
\* ended Skipped, and nothing was done for it: no price lookup, no credential
\* or address parsing, no ledger call, no transaction, for any payment token,
\* private_key and cache contents.
C1_ZeroCostSkipped ==
    \A p \in Settlers :
        (Priced(p) /\ UsdCost(p)[1] <= 0) =>
            /\ pc[p] = "done"
            /\ result[p].status = "skipped"
            /\ log[p] = <<>>
            /\ tx[p] = None

\* A request of negative cost in USDC with an empty private_key has been
\* skipped while the cache holds a SOL quote.
C1_Witness ==
    \E p \in Settlers :
        /\ pc[p] = "done"
        /\ result[p].status = "skipped"
        /\ UsdCost(p)[1] < 0
        /\ req[p].payment_token = "USDC"
        /\ req[p].private_key = KeyBlank
        /\ IsSome(cache["SOL"])

\* The arguments calculate_payment_amounts was applied to are in the
\* contract's domain: usd_cost >= 0, price > 0, fee fraction in [0, 1).
AmountsInDomain ==
    /\ IsSome(arg) /\ IsSome(ret)
    /\ Unwrap(arg).usd_cost[1] >= 0
    /\ Unwrap(arg).token_price_usd[1] > 0
    /\ IsFraction(Unwrap(arg).fee_percent)

\* C2: for usd_cost >= 0, price > 0 and a fee fraction in [0, 1) the amounts
\* of calculate_payment_amounts satisfy fee + agent = total in smallest
\* units, 0 <= fee <= total, and total - fee does not underflow.
C2_SplitConserved ==
    AmountsInDomain =>
        /\ ~Unwrap(ret).sub_overflow
        /\ Unwrap(ret).fee_amount_units + Unwrap(ret).agent_amount_units
              = Unwrap(ret).total_amount_units
        /\ 0 <= Unwrap(ret).fee_amount_units
        /\ Unwrap(ret).fee_amount_units <= Unwrap(ret).total_amount_units

\* A split with a positive fee and a positive payee amount.
C2_Witness ==
    /\ AmountsInDomain
    /\ Unwrap(ret).fee_amount_units > 0
    /\ Unwrap(ret).agent_amount_units > 0

\* usd_cost / price * fee_fraction * 10^decimals, not truncated.
FeeUnitsExact ==
    RMul(RMul(RDiv(Unwrap(arg).usd_cost, Unwrap(arg).token_price_usd),
              Unwrap(arg).fee_percent),
         FromInt(Pow10(Unwrap(arg).decimals)))
\* floor(total_smallest * fee_fraction), from the truncated total.
FeeOfTruncatedTotal ==
    F64ToU64(RMul(FromInt(Unwrap(ret).total_amount_units), Unwrap(arg).fee_percent))

\* C3 as stated: for usd_cost > 0, price > 0 and a fee fraction in [0, 1) the
\* fee units equal floor(total_smallest * fee_fraction) of the truncated
\* total, and the payee units equal total_smallest minus the fee.
C3_FeeOfTruncatedTotal ==
    (AmountsInDomain /\ Unwrap(arg).usd_cost[1] > 0) =>
        /\ Unwrap(ret).fee_amount_units = FeeOfTruncatedTotal
        /\ Unwrap(ret).agent_amount_units
              = Unwrap(ret).total_amount_units - Unwrap(ret).fee_amount_units

\* C3 amended: for usd_cost > 0, price > 0 and a fee fraction in [0, 1) the
\* fee units are the integer part of usd_cost / price * fee_fraction *
\* 10^decimals, taken from the total before truncation, and the payee units
\* equal total_smallest minus the fee.
C3_FeeOfUntruncatedTotal ==
    (AmountsInDomain /\ Unwrap(arg).usd_cost[1] > 0) =>
        /\ IsFraction(RSub(FeeUnitsExact, FromInt(Unwrap(ret).fee_amount_units)))
        /\ ~Unwrap(ret).sub_overflow
        /\ Unwrap(ret).agent_amount_units
              = Unwrap(ret).total_amount_units - Unwrap(ret).fee_amount_units

\* A split whose fee is not floor(total_smallest * fee_fraction).
C3_Witness ==
    /\ AmountsInDomain
    /\ Unwrap(arg).usd_cost[1] > 0
    /\ Unwrap(ret).fee_amount_units # FeeOfTruncatedTotal

\* The cache key of the symbol of task p's call, and the log events of a
\* failed fetch.
Key(p) == ToUpper(TokenOf(req[p]))
FailureEvents == {"fetch:" \o k : k \in FetchFailures}
FetchFailedStep(p) ==
    /\ pc[p] = "fetching"
    /\ pc'[p] = "done"
    /\ Last(log'[p]) \in FailureEvents

\* C4: a get_price_usd call that begins after a successful fetch of its
\* symbol and less than 60 seconds after it returns the cached price and
\* attempts no fetch.
C4_HitWithinTtlOfFetch ==
    [][\A p \in Clients :
          (/\ pc[p] = "cache_read"
           /\ pc'[p] # "cache_read"
           /\ fetchedAt[Key(p)] >= 0
           /\ now[p] > fetchedAt[Key(p)]
           /\ now[p] - fetchedAt[Key(p)] < CACHE_TTL)
          => /\ pc'[p] = "done"
             /\ quote'[p] = PriceOk(Unwrap(cache[Key(p)])[1])
             /\ log'[p] = log[p]]_vars

\* C5: when the fetch fails in any way and the symbol has a cache entry,
\* get_price_usd returns the cached price.
C5_FallbackOnAnyFailure ==
    [][\A p \in Clients :
          (FetchFailedStep(p) /\ IsSome(cache[Key(p)]))
          => quote'[p] = PriceOk(Unwrap(cache[Key(p)])[1])]_vars

\* C6: a failed fetch leaves every cache entry as it is, and with no entry
\* for the symbol get_price_usd returns an error, not a price.
C6_FailedFetchKeepsCache ==
    [][\A p \in Clients :
          FetchFailedStep(p)
          => /\ cache' = cache
             /\ (~IsSome(cache[Key(p)]) => ~quote'[p].ok)]_vars

\* One call failed with no entry to fall back on, another call's fetch
\* failed while its symbol has an entry.
C6_Witness ==
    \E p, q \in Clients :
        /\ p # q
        /\ pc[p] = "done" /\ pc[q] = "done"
        /\ log[p] # <<>> /\ Last(log[p]) = "fetch:bad_status"
        /\ ~quote[p].ok
        /\ log[q] # <<>> /\ Last(log[q]) \in FailureEvents
        /\ IsSome(cache[Key(q)])

\* What a request carries, read off the request itself.
Decodable(k) == ~k.blank /\ IsSome(k.bytes) /\ Len(Unwrap(k.bytes)) \in {32, 64}
ValidAddress(a) == a \in ValidPubkeys
TreasuryOf(r) == UnwrapOr(r.treasury_pubkey, DefaultTreasury)
Calculated(p) == IsSome(calc[p]) /\ IsSome(Unwrap(calc[p]).payment_amounts)
Amounts(p) == Unwrap(Unwrap(calc[p]).payment_amounts)
FailedWith(p, error) ==
    pc[p] = "done" /\ result[p].status = "failed" /\ result[p].error = error

\* C7 as stated: every request whose payment token is not SOL ends Failed
\* with UnsupportedAsset and without any fetch or ledger call.
C7_NonSolFails ==
    \A p \in Settlers :
        (Priced(p) /\ req[p].payment_token # "SOL") =>
            /\ FailedWith(p, "UnsupportedAsset")
            /\ Events(p) \cap NetworkCalls = {}

\* C7 amended: every request whose payment token is not SOL and whose
\* usd_cost is positive ends Failed with UnsupportedAsset, and no request
\* with a payment token other than SOL makes a fetch or a ledger call.
C7_NonSolPositiveCostFails ==
    \A p \in Settlers :
        (Priced(p) /\ req[p].payment_token # "SOL") =>
            /\ UsdCost(p)[1] > 0 => FailedWith(p, "UnsupportedAsset")
            /\ Events(p) \cap NetworkCalls = {}

\* A USDC request of positive cost with a decodable key and valid addresses
\* has failed.
C7_Witness ==
    \E p \in Settlers :
        /\ FailedWith(p, "UnsupportedAsset")
        /\ req[p].payment_token = "USDC"
        /\ UsdCost(p)[1] > 0
        /\ Decodable(req[p].private_key)
        /\ ValidAddress(req[p].recipient_pubkey)

\* The ledger confirmed the transaction task p submitted.
Confirmed(p) == log[p] # <<>> /\ Last(log[p]) = "send:confirmed"
\* The amounts and destinations of the Paid result are those of the
\* transaction's instructions.
PaidAsSubmitted(p) ==
    LET ins == Unwrap(tx[p]).instructions
        pay == Unwrap(result[p].payment)
    IN  /\ Last(ins).lamports = pay.recipient.amount_lamports
        /\ Last(ins).to = pay.recipient.pubkey
        /\ IF pay.treasury.amount_lamports > 0
           THEN /\ Len(ins) = 2
                /\ ins[1].lamports = pay.treasury.amount_lamports
                /\ ins[1].to = pay.treasury.pubkey
           ELSE Len(ins) = 1
        /\ pay.total_amount_lamports
              = pay.treasury.amount_lamports + pay.recipient.amount_lamports

\* C8: a request that has ended is exactly one of Skipped, Paid, Failed, and
\* none before it ends; it is Paid exactly when the ledger confirmed the
\* transaction it submitted; a Paid result carries the confirmation id, the
\* cost breakdown and the fee and payee units of that transaction.
C8_OneOutcome ==
    \A p \in Settlers :
        /\ result[p].status \in {"none", "skipped", "paid", "failed"}
        /\ (pc[p] = "done") <=> (result[p].status # "none")
        /\ (result[p].status = "paid") <=> Confirmed(p)
        /\ result[p].status = "paid" =>
              /\ result[p].transaction_signature = Some(SignatureOf(Unwrap(tx[p])))
              /\ result[p].pricing = pricing_info[p]
              /\ PaidAsSubmitted(p)

\* A Paid request with a fee transfer and a payee transfer.
C8_Witness ==
    \E p \in Settlers :
        /\ pc[p] = "done"
        /\ result[p].status = "paid"
        /\ Len(Unwrap(tx[p]).instructions) = 2

\* Task p's request has a positive cost and a total of zero smallest units.
ZeroTotal(p) ==
    Priced(p) /\ UsdCost(p)[1] > 0 /\ Calculated(p) /\ Amounts(p).total_amount_units = 0
\* A zero fee with a positive payee amount is not refused as ZeroAmount.
ZeroFeeAllowed(p) ==
    (Calculated(p) /\ Amounts(p).fee_amount_units = 0 /\ Amounts(p).agent_amount_units > 0)
        => ~FailedWith(p, "ZeroAmount")

\* C9 as stated: a request with usd_cost > 0 whose total is zero smallest
\* units fails with ZeroAmount and submits no transaction; a zero fee with a
\* positive payee amount is not an error.
C9_ZeroTotalFails ==
    \A p \in Settlers :
        /\ ZeroTotal(p) =>
              /\ FailedWith(p, "ZeroAmount")
              /\ tx[p] = None /\ Events(p) \cap LedgerCalls = {}
        /\ ZeroFeeAllowed(p)

\* C9 amended: a SOL request with a decodable credential, usd_cost > 0 and a
\* total of zero smallest units fails with ZeroAmount and submits no
\* transaction; a zero fee with a positive payee amount is not an error.
C9_ZeroTotalFailsAfterCredential ==
    \A p \in Settlers :
        /\ (ZeroTotal(p) /\ req[p].payment_token = "SOL" /\ Decodable(req[p].private_key)) =>
              /\ FailedWith(p, "ZeroAmount")
              /\ tx[p] = None /\ Events(p) \cap LedgerCalls = {}
        /\ ZeroFeeAllowed(p)

\* A request of positive cost has failed with ZeroAmount.
C9_Witness ==
    \E p \in Settlers : ZeroTotal(p) /\ FailedWith(p, "ZeroAmount")

\* The request of task p has an undecodable credential, an invalid address
\* or, once calculated, a payee amount of zero.
Defective(p) ==
    \/ ~Decodable(req[p].private_key)
    \/ ~ValidAddress(TreasuryOf(req[p]))
    \/ ~ValidAddress(req[p].recipient_pubkey)
    \/ (Calculated(p) /\ Amounts(p).agent_amount_units = 0)
\* Every ledger call of task p comes after the three parsers ran, for a SOL
\* request with none of the defects.
LedgerCallsAfterChecks(p) ==
    \A i \in 1..Len(log[p]) :
        log[p][i] \in LedgerCalls =>
            /\ {"parse_key", "parse_treasury", "parse_recipient"}
                  \subseteq {log[p][j] : j \in 1..(i - 1)}
            /\ req[p].payment_token = "SOL"
            /\ ~Defective(p)

\* C10 as stated: the ledger is contacted only after the asset check, the
\* credential decoding, the payee-amount check and both address parses
\* succeeded, and a request with an undecodable credential, an invalid
\* address or a zero payee amount ends Failed with no ledger call.
C10_DefectiveFails ==
    \A p \in Settlers :
        /\ LedgerCallsAfterChecks(p)
        /\ (Priced(p) /\ Defective(p)) =>
              /\ pc[p] = "done" => result[p].status = "failed"
              /\ Events(p) \cap LedgerCalls = {}

\* C10 amended: the same, for the requests with usd_cost > 0.
C10_DefectivePositiveCostFails ==
    \A p \in Settlers :
        /\ LedgerCallsAfterChecks(p)
        /\ (Priced(p) /\ UsdCost(p)[1] > 0 /\ Defective(p)) =>
              /\ pc[p] = "done" => result[p].status = "failed"
              /\ Events(p) \cap LedgerCalls = {}

\* A SOL request with a decodable key and a positive payee amount has failed
\* on its payee address, after both address parsers ran and with no ledger
\* call.
C10_Witness ==
    \E p \in Settlers :
        /\ FailedWith(p, "InvalidAddress")
        /\ Decodable(req[p].private_key)
        /\ ValidAddress(TreasuryOf(req[p]))
        /\ ~ValidAddress(req[p].recipient_pubkey)
        /\ Amounts(p).agent_amount_units > 0
        /\ Last(log[p]) = "parse_recipient"

\* How often event e is in task p's log.
Count(p, e) == Cardinality({i \in 1..Len(log[p]) : log[p][i] = e})
\* The answers of the ledger that are relay errors, and the text each
\* leaves in the failure.
RelayErrors == {"blockhash:error"} \cup {"send:" \o o : o \in SendOutcomes \ {"confirmed"}}
RelayDetail(e) ==
    IF e = "blockhash:error" THEN "Failed to get blockhash: " \o BlockhashError
    ELSE "Failed to send transaction: " \o
            (CHOOSE o \in SendOutcomes : e = "send:" \o o)

\* C11: a request asks for at most one block hash and submits at most one
\* transaction; a relay error is the last thing in the request, which has
\* ended Failed with the relay's error text, and after a failed block-hash
\* request no transaction was built or submitted.
C11_AtMostOneSubmission ==
    \A p \in Settlers :
        /\ Count(p, "rpc_blockhash") <= 1
        /\ Count(p, "rpc_send") <= 1
        /\ \A i \in 1..Len(log[p]) :
              log[p][i] \in RelayErrors =>
                  /\ i = Len(log[p])
                  /\ FailedWith(p, "RelayError")
                  /\ result[p].detail = RelayDetail(log[p][i])
                  /\ log[p][i] = "blockhash:error" =>
                        tx[p] = None /\ Count(p, "rpc_send") = 0

\* A request whose transaction the ledger rejected has failed.
C11_Witness ==
    \E p \in Settlers :
        /\ FailedWith(p, "RelayError")
        /\ Last(log[p]) = "send:rejected"
        /\ Count(p, "rpc_send") = 1

\* The account of the signer of task p's request: the public key of the
\* first 32 bytes of its credential.
SignerOf(p) == KeypairOf(SubSeq(Unwrap(req[p].private_key.bytes), 1, 32)).pubkey
\* A transfer of `lamports` from task p's signer to address `to`.
IsTransfer(ins, p, to, lamports) ==
    /\ ins.program_id = "11111111111111111111111111111111"
    /\ ins.from = SignerOf(p)
    /\ ins.to = to
    /\ ins.lamports = lamports

\* C12: the transaction built has one transfer per positive amount: with a
\* fee of 0 the payee transfer alone, with a positive fee the fee transfer
\* to the treasury and then the payee transfer; every transfer is from the
\* signer's account, which also signs and pays, and carries the computed
\* fee and payee units.
C12_OneTransferPerAmount ==
    \A p \in Settlers :
        IsSome(tx[p]) =>
            /\ Unwrap(tx[p]).signed_by = SignerOf(p)
            /\ Unwrap(tx[p]).fee_payer = SignerOf(p)
            /\ Amounts(p).agent_amount_units > 0
            /\ IF Amounts(p).fee_amount_units = 0
               THEN /\ Len(Unwrap(tx[p]).instructions) = 1
                    /\ IsTransfer(Unwrap(tx[p]).instructions[1], p,
                                  req[p].recipient_pubkey, Amounts(p).agent_amount_units)
               ELSE /\ Len(Unwrap(tx[p]).instructions) = 2
                    /\ IsTransfer(Unwrap(tx[p]).instructions[1], p,
                                  TreasuryOf(req[p]), Amounts(p).fee_amount_units)
                    /\ IsTransfer(Unwrap(tx[p]).instructions[2], p,
                                  req[p].recipient_pubkey, Amounts(p).agent_amount_units)

\* A transaction for a zero fee and a positive payee amount.
C12_Witness ==
    \E p \in Settlers :
        /\ IsSome(tx[p])
        /\ Amounts(p).fee_amount_units = 0
        /\ Len(Unwrap(tx[p]).instructions) = 1

-----------------------------------------------------------------------------
(* parse_keypair_from_string as a function of its argument, applied to two *)
(* credentials.                                                            *)

\* n bytes of value b.
Bytes(n, b) == [i \in 1..n |-> b]
\* What the decoders give: a failure, or byte strings of the lengths around
\* 32 and 64, two different leading halves, two different trailing halves.
DecodedBytes ==
    {None, Some(<<>>), Some(Bytes(31, 7)), Some(Bytes(33, 7)), Some(Bytes(65, 7)),
     Some(Bytes(32, 7)), Some(Bytes(32, 8)),
     Some(Bytes(32, 7) \o Bytes(32, 9)), Some(Bytes(32, 7) \o Bytes(32, 8)),
     Some(Bytes(32, 8) \o Bytes(32, 9))}
KeyStrings ==
    {KeyBlank} \cup {PrivateKey(FALSE, br, b) : br \in BOOLEAN, b \in DecodedBytes}

KeyInit ==
    /\ Idle
    /\ arg \in {Some(<<k1, k2>>) : k1 \in KeyStrings, k2 \in KeyStrings}
    /\ ret = None

KeyApply ==
    /\ ret = None
    /\ ret' = Some(<<parse_keypair_from_string(Unwrap(arg)[1]),
                     parse_keypair_from_string(Unwrap(arg)[2])>>)
    /\ UNCHANGED <<held, clock, cache, fetchedAt, pc, req, now, quote, pricing_info, calc, tx,
                   result, log, arg>>

KeyNext == KeyApply

KeySpec == KeyInit /\ [][KeyNext]_vars

\* The first 32 decoded bytes of a decodable credential.
Leading(k) == SubSeq(Unwrap(k.bytes), 1, 32)

\* C13: a credential that is empty, does not decode, or decodes to a length
\* other than 32 or 64 bytes is refused; any other gives the key pair of its
\* first 32 bytes, so two credentials with the same first 32 bytes give the
\* same key pair and address, whatever their lengths and encodings.
C13_LeadingBytesDecide ==
    (IsSome(arg) /\ IsSome(ret)) =>
        /\ \A i \in {1, 2} :
              IF Decodable(Unwrap(arg)[i])
              THEN /\ Unwrap(ret)[i].ok
                   /\ Unwrap(Unwrap(ret)[i].val).secret = Leading(Unwrap(arg)[i])
              ELSE ~Unwrap(ret)[i].ok
        /\ (/\ Decodable(Unwrap(arg)[1])
            /\ Decodable(Unwrap(arg)[2])
            /\ Leading(Unwrap(arg)[1]) = Leading(Unwrap(arg)[2]))
           => /\ Unwrap(ret)[1] = Unwrap(ret)[2]
              /\ Unwrap(Unwrap(ret)[1].val).pubkey = Unwrap(Unwrap(ret)[2].val).pubkey

\* A 64-byte JSON-array credential and a 32-byte base-58 credential with the
\* same first 32 bytes decoded to the same key pair.
C13_Witness ==
    /\ IsSome(arg) /\ IsSome(ret)
    /\ Unwrap(arg)[1] = PrivateKey(FALSE, TRUE, Some(Bytes(32, 7) \o Bytes(32, 9)))
    /\ Unwrap(arg)[2] = PrivateKey(FALSE, FALSE, Some(Bytes(32, 7)))
    /\ Unwrap(ret)[1].ok
    /\ Unwrap(ret)[1] = Unwrap(ret)[2]

-----------------------------------------------------------------------------
(* parse_usage_tokens as a function of its argument.                       *)

\* A string as the sequence of its characters.
Chars7 == <<" ", "7", " ">>
CharsNeg7 == <<"-", "7">>
CharsX == <<"x">>
EmptyObj == JObj([k \in {} |-> JNull])

\* Flat documents: one per rule, with and without an explicit total, with
\* fields of two rules, with fields that do not coerce, with negative,
\* fractional and very large counts.
FlatDocs ==
    {JObj([prompt_tokens |-> JInt(100), completion_tokens |-> JInt(50)]),
     JObj([prompt_tokens |-> JInt(100), completion_tokens |-> JInt(50),
           total_tokens |-> JInt(999)]),
     JObj([prompt_tokens |-> JInt(100), completion_tokens |-> JInt(50),
           input_tokens |-> JInt(1), output_tokens |-> JInt(2)]),
     JObj([input_tokens |-> JInt(1), output_tokens |-> JInt(0),
           total_tokens |-> JStr(Chars7)]),
     JObj([input_tokens |-> JInt(1), output_tokens |-> JInt(2),
           total_tokens |-> JStr(CharsX)]),
     JObj([promptTokenCount |-> JInt(3), candidatesTokenCount |-> JInt(4)]),
     JObj([promptTokenCount |-> JInt(3), candidatesTokenCount |-> JInt(4),
           totalTokenCount |-> JInt(10)]),
     JObj([tokens |-> JInt(9)]),
     JObj([tokens |-> JInt(9), input_tokens |-> JInt(4)]),
     JObj([prompt_tokens |-> JInt(100)]),
     JObj([prompt_tokens |-> JNull, completion_tokens |-> JInt(5),
           promptTokenCount |-> JInt(3), candidatesTokenCount |-> JInt(4)]),
     JObj([prompt_tokens |-> JInt(-5), completion_tokens |-> JInt(3)]),
     JObj([input_tokens |-> JStr(CharsNeg7), output_tokens |-> JFloat(-5, 2)]),
     JObj([input_tokens |-> JFloat(29, 10), output_tokens |-> JFloat(1, 1)]),
     JObj([prompt_tokens |-> JBig(2, -1), completion_tokens |-> JInt(1)]),
     EmptyObj}
\* The objects found under `statistics`.
StatsDocs ==
    {JObj([tokens_in |-> JInt(5), tokens_out |-> JInt(6)]),
     JObj([input_tokens |-> JInt(1), prompt_tokens |-> JInt(2), total_tokens |-> JInt(3)]),
     JObj([tokens |-> JInt(8)]),
     JObj([input_tokens |-> JStr(CharsX), prompt_tokens |-> JInt(2)])}
ScalarDocs == {JNull, JInt(5), JStr(CharsX)}
InnerDocs == FlatDocs \cup StatsDocs \cup ScalarDocs
SiblingStats == JObj([tokens_in |-> JInt(5), tokens_out |-> JInt(6), tokens |-> JInt(11)])

\* Each inner document by itself and under usage, meta.usage and statistics,
\* alone or beside other members.
UsageDocs ==
    InnerDocs
    \cup {JObj([usage |-> d]) : d \in InnerDocs}
    \cup {JObj([meta |-> JObj([usage |-> d])]) : d \in InnerDocs}
    \cup {JObj([statistics |-> d]) : d \in InnerDocs}
    \cup {JObj([usage |-> d, statistics |-> SiblingStats]) : d \in InnerDocs}
    \cup {JObj([meta |-> JObj([usage |-> d]), statistics |-> SiblingStats]) : d \in InnerDocs}
    \cup {JObj([usage |-> JObj([usage |-> d])]) : d \in InnerDocs}
    \cup {JObj([prompt_tokens |-> JInt(100), usage |-> d]) : d \in InnerDocs}
    \cup {JObj([meta |-> d, statistics |-> SiblingStats]) : d \in ScalarDocs \cup {EmptyObj}}
    \cup {JObj([usage |-> d,
                meta |-> JObj([usage |-> JObj([input_tokens |-> JInt(1),
                                               output_tokens |-> JInt(2)])]),
                statistics |-> SiblingStats]) : d \in InnerDocs}

UsageInit ==
    /\ Idle
    /\ arg \in {Some(d) : d \in UsageDocs}
    /\ ret = None

\* What a call that computed `tokens` gives: the three counts, or a panic
\* when an addition overflowed in a build with overflow checks.
UsageResult(tokens, overflow_checks) ==
    IF tokens[4] /\ overflow_checks
    THEN [panic |-> TRUE, usage |-> <<None, None, None>>]
    ELSE [panic |-> FALSE, usage |-> <<tokens[1], tokens[2], tokens[3]>>]

UsageApply ==
    /\ ret = None
    /\ \E overflow_checks \in BOOLEAN :
          ret' = Some(UsageResult(parse_usage_tokens(Unwrap(arg)), overflow_checks))
    /\ UNCHANGED <<held, clock, cache, fetchedAt, pc, req, now, quote, pricing_info, calc, tx,
                   result, log, arg>>

UsageNext == UsageApply

UsageSpec == UsageInit /\ [][UsageNext]_vars

\* parse_usage_tokens was applied and returned.
UsageReturned == IsSome(arg) /\ IsSome(ret) /\ ~Unwrap(ret).panic

\* Member k of object o is present and coerces to an integer.
Coerces(o, k) == IsSome(GetInt(o, k))
\* Member k of object o is present and is an object.
HasObject(o, k) == k \in DOMAIN o.f /\ o.f[k].t = "obj"
\* The number of the first rule whose required members document d has, in
\* the order OpenAI, Anthropic/generic, Gemini, Cohere, usage, meta.usage,
\* statistics; 0 when d is no object or has none.
RuleOf(d) ==
    IF d.t # "obj" THEN 0
    ELSE IF Coerces(d, "prompt_tokens") /\ Coerces(d, "completion_tokens") THEN 1
    ELSE IF Coerces(d, "input_tokens") /\ Coerces(d, "output_tokens") THEN 2
    ELSE IF Coerces(d, "promptTokenCount") /\ Coerces(d, "candidatesTokenCount") THEN 3
    ELSE IF Coerces(d, "tokens") THEN 4
    ELSE IF HasObject(d, "usage") THEN 5
    ELSE IF HasObject(d, "meta") /\ "usage" \in DOMAIN d.f.meta.f THEN 6
    ELSE IF HasObject(d, "statistics") THEN 7
    ELSE 0
\* What an input/output rule with members a, b and total member t gives.
PairResult(d, a, b, t) ==
    <<GetInt(d, a), GetInt(d, b),
      IF Coerces(d, t) THEN GetInt(d, t)
      ELSE Some(WrappingAdd(Unwrap(GetInt(d, a)), Unwrap(GetInt(d, b))))>>
\* The count under the first of the keys that object o has.
UnderFirstKey(o, keys) ==
    IF \E i \in 1..Len(keys) : keys[i] \in DOMAIN o.f
    THEN GetInt(o, keys[CHOOSE i \in 1..Len(keys) :
                          /\ keys[i] \in DOMAIN o.f
                          /\ \A j \in 1..(i - 1) : keys[j] \notin DOMAIN o.f])
    ELSE None
RECURSIVE ByFirstRule(_)
\* The result of the first rule that document d matches.
ByFirstRule(d) ==
    CASE RuleOf(d) = 1 -> PairResult(d, "prompt_tokens", "completion_tokens", "total_tokens")
      [] RuleOf(d) = 2 -> PairResult(d, "input_tokens", "output_tokens", "total_tokens")
      [] RuleOf(d) = 3 ->
            PairResult(d, "promptTokenCount", "candidatesTokenCount", "totalTokenCount")
      [] RuleOf(d) = 4 ->
            <<GetInt(d, "input_tokens"), GetInt(d, "output_tokens"), GetInt(d, "tokens")>>
      [] RuleOf(d) = 5 -> ByFirstRule(d.f.usage)
      [] RuleOf(d) = 6 -> ByFirstRule(d.f.meta.f.usage)
      [] RuleOf(d) = 7 ->
            <<UnderFirstKey(d.f.statistics, <<"input_tokens", "prompt_tokens", "tokens_in">>),
              UnderFirstKey(d.f.statistics,
                            <<"output_tokens", "completion_tokens", "tokens_out">>),
              UnderFirstKey(d.f.statistics, <<"total_tokens", "tokens">>)>>
      [] OTHER -> <<None, None, None>>

\* C14: what parse_usage_tokens returns is the result of the first rule, in
\* the order OpenAI, Anthropic/generic, Gemini, Cohere, usage, meta.usage,
\* statistics, whose required members are present and coercible; a later
\* rule does not override it, and a document matching no rule gives three
\* absent fields.
C14_FirstRuleDecides ==
    UsageReturned => Unwrap(ret).usage = ByFirstRule(Unwrap(arg))

\* A document with the OpenAI and the generic members gave the OpenAI
\* values.
C14_Witness ==
    /\ UsageReturned
    /\ Unwrap(arg) = JObj([prompt_tokens |-> JInt(100), completion_tokens |-> JInt(50),
                           input_tokens |-> JInt(1), output_tokens |-> JInt(2)])
    /\ Unwrap(ret).usage = <<Some(I64(100)), Some(I64(50)), Some(I64(150))>>

RECURSIVE Reached(_)
\* The object whose members decide the result: the document itself, or the
\* one found by following usage and meta.usage.
Reached(d) ==
    IF RuleOf(d) = 5 THEN Reached(d.f.usage)
    ELSE IF RuleOf(d) = 6 THEN Reached(d.f.meta.f.usage)
    ELSE d
\* The explicit total of object o under the rule it matches, if it has a
\* usable one.
ExplicitTotal(o) ==
    CASE RuleOf(o) \in {1, 2} -> GetInt(o, "total_tokens")
      [] RuleOf(o) = 3 -> GetInt(o, "totalTokenCount")
      [] RuleOf(o) = 4 -> GetInt(o, "tokens")
      [] RuleOf(o) = 7 -> UnderFirstKey(o.f.statistics, <<"total_tokens", "tokens">>)
      [] OTHER -> None
\* a + b as integers, whether or not it fits i64.
ExactSum(a, b) == <<a[1] + b[1], a[2] + b[2]>>
InputOf(r) == r.usage[1]
OutputOf(r) == r.usage[2]
TotalOf(r) == r.usage[3]

\* C15: under the OpenAI, Anthropic/generic and Gemini rules, also when
\* reached through usage or meta.usage, the returned total is the usable
\* explicit total member when there is one, and input + output otherwise.
C15_TotalIsFieldOrSum ==
    (UsageReturned /\ RuleOf(Reached(Unwrap(arg))) \in {1, 2, 3}) =>
        TotalOf(Unwrap(ret)) =
            IF IsSome(ExplicitTotal(Reached(Unwrap(arg))))
            THEN ExplicitTotal(Reached(Unwrap(arg)))
            ELSE Some(ExactSum(Unwrap(InputOf(Unwrap(ret))), Unwrap(OutputOf(Unwrap(ret)))))

\* C16: whatever the document and the rule, a result with input and output
\* present has a total, and without an explicit total in the document the
\* total is input + output.
C16_TotalWhenBothPresent ==
    (UsageReturned /\ IsSome(InputOf(Unwrap(ret))) /\ IsSome(OutputOf(Unwrap(ret)))) =>
        /\ IsSome(TotalOf(Unwrap(ret)))
        /\ ~IsSome(ExplicitTotal(Reached(Unwrap(arg)))) =>
              TotalOf(Unwrap(ret)) =
                  Some(ExactSum(Unwrap(InputOf(Unwrap(ret))), Unwrap(OutputOf(Unwrap(ret)))))

\* C17: every field of a result is absent or an integer >= 0.
C17_NoNegativeCount ==
    UsageReturned =>
        \A i \in 1..3 :
            IsSome(Unwrap(ret).usage[i]) => ~I64IsNegative(Unwrap(Unwrap(ret).usage[i]))

\* C18: parse_usage_tokens returns for every document; it does not abort,
\* and the sum of input and output does not fail.
C18_AlwaysReturns ==
    IsSome(ret) => ~Unwrap(ret).panic

\* The errors get_price_usd returns.
PriceErrors ==
    {"error sending request", "Failed to fetch price", "Price not found", "Unknown token"}
\* The task's call of get_price_usd has returned.
LookupAnswered(p) == pc[p] \notin {"idle", "cache_read", "fetching", "panicked"}

\* C19: a request with usd_cost > 0 whose price lookup has answered has a
\* calculator response with status "calculated" and a payment split, priced
\* at the looked-up price or, when the lookup failed, at the default price;
\* no failure of the settlement carries the lookup's error.
C19_PriceFailureUsesDefault ==
    \A p \in Settlers :
        (Priced(p) /\ UsdCost(p)[1] > 0) =>
            /\ LookupAnswered(p) => IsSome(calc[p])
            /\ IsSome(calc[p]) =>
                  /\ Unwrap(calc[p]).status = "calculated"
                  /\ IsSome(Unwrap(calc[p]).payment_amounts)
                  /\ Unwrap(calc[p]).token_price_usd =
                        Some(IF quote[p].ok THEN quote[p].price ELSE FromInt(DefaultPrice))
                  /\ RMul(Amounts(p).total_amount_token,
                          IF quote[p].ok THEN quote[p].price ELSE FromInt(DefaultPrice))
                        = UsdCost(p)
            /\ result[p].status = "failed" =>
                  /\ result[p].detail \notin PriceErrors
                  /\ result[p].error \notin {"PriceUnavailable", "UnknownAsset"}

\* A lookup that failed with nothing cached, and the settlement paid at the
\* default price.
C19_Witness ==
    \E p \in Settlers :
        /\ Priced(p) /\ UsdCost(p)[1] > 0
        /\ ~quote[p].ok /\ quote[p].err \in PriceErrors
        /\ Calculated(p)
        /\ Unwrap(calc[p]).token_price_usd = Some(FromInt(DefaultPrice))
        /\ pc[p] = "done" /\ result[p].status = "paid"

\* The symbols get_price_usd answers for: the pegged one and the mapped one.
KnownSymbols == {"USDC", "SOL"}
\* Task p leaves the freshness test of get_price_usd in this step.
LeavesCacheRead(p) == pc[p] = "cache_read" /\ pc'[p] # "cache_read"

\* C20: get_price_usd for a symbol other than SOL and USDC returns the
\* unknown-token error from the step that read the cache, in every cache
\* state: the call requests nothing from the price source, before or in that
\* step, and the cache is left as it was.
C20_UnknownSymbolFailsAtOnce ==
    [][\A p \in Clients :
          (LeavesCacheRead(p) /\ Key(p) \notin KnownSymbols) =>
              /\ pc'[p] = "done"
              /\ quote'[p] = PriceErr("Unknown token")
              /\ cache' = cache
              /\ log'[p] = log[p]
              /\ log[p] = <<"price_lookup">>]_vars

\* An unmapped symbol refused while the cache holds an entry for SOL.
C20_Witness ==
    \E p \in Clients :
        /\ pc[p] = "done"
        /\ Key(p) \notin KnownSymbols
        /\ quote[p] = PriceErr("Unknown token")
        /\ "fetch" \notin Events(p)
        /\ IsSome(cache["SOL"])

\* Task p's call is for the pegged symbol, in whatever letter case.
AsksPegged(p) == req[p].kind = "price" /\ Key(p) = "USDC"
NoPeggedEntry == cache["USDC"] = None

\* C21: a get_price_usd call for USDC, in any letter case, returns 1.0 in
\* the step that starts it: it never waits for the cache or for the price
\* source, its history holds the call alone, the cache is left as it was,
\* and the cache never holds an entry for USDC.
C21_PeggedShortCircuits ==
    /\ NoPeggedEntry
    /\ [][/\ NoPeggedEntry'
          /\ \A p \in Clients :
                (pc[p] = "idle" /\ pc'[p] # "idle" /\ AsksPegged(p)') =>
                    /\ pc'[p] = "done"
                    /\ quote'[p] = PriceOk(FromInt(1))
                    /\ log'[p] = <<"price_lookup">>
                    /\ cache' = cache /\ fetchedAt' = fetchedAt]_vars

\* A lower-case pegged symbol answered with 1.0 while another call waits
\* for the price source and the cache holds an entry for SOL.
C21_Witness ==
    \E p, q \in Clients :
        /\ pc[p] = "done" /\ req[p].kind = "price" /\ req[p].token = "usdc"
        /\ quote[p] = PriceOk(FromInt(1))
        /\ pc[q] = "fetching"
        /\ IsSome(cache["SOL"])

\* The timestamp of the entry of key k.
Timestamp(k) == Unwrap(cache[k])[2]

\* C22: the entry written by a successful fetch carries the time at which
\* the fetch succeeded, so every entry is stamped with the time of the last
\* successful fetch for its symbol.
C22_StampedAtFetchCompletion ==
    \A k \in CacheKeys : IsSome(cache[k]) => Timestamp(k) = fetchedAt[k]

\* Task p receives a price for key k in this step and returns it.
FetchSucceedsFor(p, k) ==
    /\ pc[p] = "fetching" /\ Key(p) = k
    /\ pc'[p] = "done"
    /\ Last(log'[p]) = "fetch:ok"
    /\ quote'[p].ok

\* C23: the cache has one slot per upper-cased symbol; in every step an
\* entry that is present stays present, and an entry changes only in a step
\* in which a call for that symbol, in whatever letter case, receives a
\* price: the entry then holds that price under the caller's `now`, and
\* the entries of the other symbols are as before.
C23_EntriesOnlyRefreshed ==
    [][\A k \in CacheKeys :
          /\ IsSome(cache[k]) => IsSome(cache'[k])
          /\ cache'[k] # cache[k] =>
                \E p \in Clients :
                    /\ FetchSucceedsFor(p, k)
                    /\ cache'[k] = Some(<<quote'[p].price, now[p]>>)
                    /\ \A j \in CacheKeys \ {k} : cache'[j] = cache[j]]_vars

\* The SOL entry written by one call and overwritten by a call that gave
\* the symbol in lower case.
C23_Witness ==
    \E p, q \in Clients :
        /\ pc[p] = "done" /\ pc[q] = "done"
        /\ req[p].token = "sol" /\ req[q].token = "SOL"
        /\ Last(log[p]) = "fetch:ok" /\ Last(log[q]) = "fetch:ok"
        /\ quote[p].price # quote[q].price
        /\ now[q] < now[p]
        /\ cache["SOL"] = Some(<<quote[p].price, now[p]>>)

-----------------------------------------------------------------------------
(* A settlement and a get_price_usd call running side by side.             *)

\* The settlement requests that reach the ledger: a usable credential and
\* addresses, SOL, a positive cost.
RelayRequests ==
    {r \in SettleRequests :
        /\ r.private_key = KeyJson64
        /\ r.usage = JObj([prompt_tokens |-> JInt(100), completion_tokens |-> JInt(50)])
        /\ r.input_cost_per_million_usd = Rat(5, 2)
        /\ r.recipient_pubkey = "RecipientWallet"
        /\ r.payment_token = "SOL"
        /\ r.treasury_pubkey = None}
Callers == {"q1"}
LockTasks == Settlers \cup Callers

LockNext ==
    \/ \E p \in Settlers, r \in RelayRequests : SettleStart(p, r)
    \/ \E p \in Callers, r \in PriceRequests : PriceStart(p, r)
    \/ \E p \in LockTasks : CacheRead(p)
    \/ \E p \in LockTasks, r \in FetchResponses : FetchResponse(p, r)
    \/ \E p \in Settlers, ok \in BOOLEAN : BlockhashResponse(p, ok)
    \/ \E p \in Settlers, outcome \in SendOutcomes : SendResponse(p, outcome)
    \/ \E p \in LockTasks : Finish(p)
    \/ Tick

LockSpec == Init /\ [][LockNext]_vars

\* The await points at which a task waits for the price source or the
\* ledger.
NetworkWaits == {"fetching", "blockhash", "confirming"}
OnNetwork(p) == pc[p] \in NetworkWaits

C25_TimestampNeverDecreases ==
    [][\A k \in CacheKeys :
          (IsSome(cache[k]) /\ IsSome(cache'[k])) =>
              Unwrap(cache'[k])[2] >= Unwrap(cache[k])[2]]_vars

\* C26: whenever a call is at the freshness test with an entry present, the
\* entry's timestamp is at most the caller's `now`, so now - timestamp does
\* not underflow.
C26_AgeNeverUnderflows ==
    \A p \in Clients :
        (pc[p] = "cache_read" /\ IsSome(cache[Key(p)])) =>
            ~AgeOverflows(now[p], Timestamp(Key(p)))

\* The three counts of what the parser computes for document d.
Counts(d) ==
    <<parse_usage_tokens(d)[1], parse_usage_tokens(d)[2], parse_usage_tokens(d)[3]>>
HasMetaUsage(d) == HasObject(d, "meta") /\ "usage" \in DOMAIN d.f.meta.f

\* C27: for an object that matches none of the four flat rules, a usage
\* member that is an object decides the result, which is that of the usage
\* object itself, three absent fields included; failing that, a meta object
\* with a usage member decides it in the same way; the statistics member is
\* not looked at in either case.
C27_NestedObjectEndsSearch ==
    (UsageReturned /\ IsObj(Unwrap(arg)) /\ RuleOf(Unwrap(arg)) \notin 1..4) =>
        IF HasObject(Unwrap(arg), "usage")
        THEN Unwrap(ret).usage = Counts(Unwrap(arg).f.usage)
        ELSE HasMetaUsage(Unwrap(arg)) =>
                Unwrap(ret).usage = Counts(Unwrap(arg).f.meta.f.usage)

\* A usage object without counts beside a meta.usage and a statistics
\* object with counts gave three absent fields.
C27_Witness ==
    /\ UsageReturned /\ IsObj(Unwrap(arg))
    /\ HasObject(Unwrap(arg), "usage") /\ Unwrap(arg).f.usage = EmptyObj
    /\ HasMetaUsage(Unwrap(arg)) /\ RuleOf(Unwrap(arg).f.meta.f.usage) = 2
    /\ HasObject(Unwrap(arg), "statistics")
    /\ Unwrap(arg).f.statistics = SiblingStats
    /\ Unwrap(ret).usage = <<None, None, None>>

\* The normalizer gave task p neither an input nor an output count.
NoCounts(p) ==
    /\ Unwrap(pricing_info[p]).input_tokens = None
    /\ Unwrap(pricing_info[p]).output_tokens = None

\* C28: a request whose usage gives neither an input nor an output count
\* has usd_cost 0 and both costs 0, whatever the total and the rates, and
\* ends at once: the calculator's response and the settlement are skipped,
\* with no payment split and no price lookup.
C28_NoCountsSkipped ==
    \A p \in Settlers :
        (Priced(p) /\ NoCounts(p)) =>
            /\ UsdCost(p) = FromInt(0)
            /\ Unwrap(pricing_info[p]).input_cost_usd = FromInt(0)
            /\ Unwrap(pricing_info[p]).output_cost_usd = FromInt(0)
            /\ pc[p] = "done"
            /\ IsSome(calc[p])
            /\ Unwrap(calc[p]).status = "skipped"
            /\ Unwrap(calc[p]).payment_amounts = None
            /\ result[p].status = "skipped"
            /\ result[p].payment = None
            /\ log[p] = <<>>

\* A Cohere-style total alone, with positive rates, skipped.
C28_Witness ==
    \E p \in Settlers :
        /\ Priced(p) /\ NoCounts(p)
        /\ Unwrap(pricing_info[p]).total_tokens = Some(I64(9))
        /\ Unwrap(pricing_info[p]).input_cost_per_million_usd = Rat(5, 2)
        /\ result[p].status = "skipped"

\* The defects of task p's request, read off the request and the split:
\* 1 unsupported asset, 2 invalid credential, 3 zero payee amount,
\* 4 invalid treasury address, 5 invalid payee address.
HasDefect(p, i) ==
    CASE i = 1 -> req[p].payment_token # "SOL"
      [] i = 2 -> ~Decodable(req[p].private_key)
      [] i = 3 -> Amounts(p).agent_amount_units = 0
      [] i = 4 -> ~ValidAddress(TreasuryOf(req[p]))
      [] i = 5 -> ~ValidAddress(req[p].recipient_pubkey)
DefectsOf(p) == {i \in 1..5 : HasDefect(p, i)}
FirstDefect(p) == CHOOSE i \in DefectsOf(p) : \A j \in DefectsOf(p) : i <= j
\* The error reported for defect i, and the parsers that have run by then.
ErrorOfDefect(i) ==
    CASE i = 1 -> "UnsupportedAsset"
      [] i = 2 -> "InvalidCredential"
      [] i = 3 -> "ZeroAmount"
      [] OTHER -> "InvalidAddress"
TrailOfDefect(i) ==
    CASE i = 1 -> <<>>
      [] i \in {2, 3} -> <<"parse_key">>
      [] i = 4 -> <<"parse_key", "parse_treasury">>
      [] OTHER -> <<"parse_key", "parse_treasury", "parse_recipient">>
IsCheckEvent(e) == e \in {"parse_key", "parse_treasury", "parse_recipient"}
\* The parsers task p ran and its ledger calls, in order.
CheckTrail(p) == SelectSeq(log[p], IsCheckEvent)
IsLedgerCall(e) == e \in LedgerCalls
LedgerTrail(p) == SelectSeq(log[p], IsLedgerCall)

\* C29: a settlement with usd_cost > 0 and one or more defects fails with
\* the error of the first defect in the order unsupported asset, invalid
\* credential, zero payee amount, invalid treasury address, invalid payee
\* address; the parsers of the later checks have not run and the ledger was
\* not called.  Without a defect the only failure is a relay error.
C29_FirstDefectReported ==
    \A p \in Settlers :
        (Priced(p) /\ UsdCost(p)[1] > 0 /\ Calculated(p)) =>
            IF DefectsOf(p) # {}
            THEN /\ FailedWith(p, ErrorOfDefect(FirstDefect(p)))
                 /\ CheckTrail(p) = TrailOfDefect(FirstDefect(p))
                 /\ LedgerTrail(p) = <<>>
            ELSE result[p].status = "failed" =>
                    /\ result[p].error = "RelayError"
                    /\ CheckTrail(p) = <<"parse_key", "parse_treasury", "parse_recipient">>

\* A SOL request with an empty credential, a zero payee amount and two
\* invalid addresses failed on the credential.
C29_Witness ==
    \E p \in Settlers :
        /\ Priced(p) /\ UsdCost(p)[1] > 0 /\ Calculated(p)
        /\ DefectsOf(p) = {2, 3, 4, 5}
        /\ FailedWith(p, "InvalidCredential")
        /\ CheckTrail(p) = <<"parse_key">>

=============================================================================
